---- MODULE Spec2Model ----
(***************************************************************************)
(* AURA server: the consistency engine (consistency-engine.js, BLOQUE 2.4) *)
(* and the metadata analyzer (metadata-analyzer.js, BLOQUE 3.1).           *)
(*                                                                         *)
(* Both are functions of their arguments.  A behaviour of Spec starts from *)
(* one request (a frozen declaration, a file reference with what fetching  *)
(* and reading it yields, the technical evidence and the evidence          *)
(* manifest) and applies analyzeMetadata and evaluateConsistency to it.    *)
(*                                                                         *)
(* JavaScript values that the code reads without checking their type are   *)
(* tagged records [k |-> kind, v |-> payload]; a TypeError thrown by the    *)
(* code is the result "TypeError" of the operator that models it.          *)
(* Scores are in hundredths (85 stands for 0.85).                          *)
(***************************************************************************)
EXTENDS Integers, Sequences, FiniteSets, TLC

VARIABLES
    intake_declarations,  \* the frozen declaration of the request
    file,                 \* the file reference and what fetching/reading it yields
    technical_evidence,   \* technical evidence handed to evaluateConsistency
    evidence_list,        \* evidence manifest handed to evaluateConsistency
    analysis,             \* outcome of analyzeMetadata, or NotRun
    extraction,           \* outcome of extractEvidenceMetadata, or NotRun
    consistency,          \* outcome of evaluateConsistency, or NotRun
    detectors,            \* Object.values of the detector outputs of the request
    signal_result,        \* aggregated score and confidence, or NotRun
    store,                \* the tables of the external store
    response,             \* the response to the last endpoint call
    temp_files,           \* temporary files left in the temporary directory
    calls                 \* endpoint calls answered so far

vars == <<intake_declarations, file, technical_evidence, evidence_list,
          analysis, extraction, consistency, detectors, signal_result,
          store, response, temp_files, calls>>

\* what a direct call of the analyzer or the engine works on
moduleVars == <<intake_declarations, file, technical_evidence, evidence_list,
                analysis, extraction, consistency, detectors, signal_result>>

\* what the endpoints of the server work on, besides the temporary directory
serverVars == <<store, response, calls>>

(***************************************************************************)
(* JavaScript values                                                       *)
(***************************************************************************)
Undefined == [k |-> "undefined", v |-> 0]
Null == [k |-> "null", v |-> 0]
Num(n) == [k |-> "number", v |-> n]
Str(s) == [k |-> "string", v |-> s]
List(q) == [k |-> "array", v |-> q]
Bool(b) == [k |-> "boolean", v |-> b]
Obj(r) == [k |-> "object", v |-> r]
\* a TypeError thrown while computing a value
Thrown == [k |-> "TypeError", v |-> 0]

IsNullish(x) == x.k \in {"undefined", "null"}
IsString(x) == x.k = "string"
IsArray(x) == x.k = "array"
IsThrown(x) == x.k = "TypeError"
\* x === s for a string literal s
StrEq(x, s) == x.k = "string" /\ x.v = s
Range(q) == {q[i] : i \in 1..Len(q)}

\* JavaScript truthiness (ToBoolean)
Truthy(x) ==
    CASE x.k \in {"undefined", "null"} -> FALSE
      [] x.k = "number" -> x.v # 0
      [] x.k = "string" -> x.v # ""
      [] x.k = "boolean" -> x.v
      [] OTHER -> TRUE

\* x.name for a value x that is neither null nor undefined
Prop(x, name) ==
    IF x.k = "object" /\ name \in DOMAIN x.v THEN x.v[name] ELSE Undefined

\* x?.name
OptProp(x, name) == IF IsNullish(x) THEN Undefined ELSE Prop(x, name)

\* a || b
OrElse(a, b) == IF Truthy(a) THEN a ELSE b

UpperCaseLetters == "ABCDEFGHIJKLMNOPQRSTUVWXYZ"
LowerCaseLetters == "abcdefghijklmnopqrstuvwxyz"

\* the lower-case letter of each upper-case letter
LowerCaseOf ==
    [c \in {SubSeq(UpperCaseLetters, i, i) : i \in 1..Len(UpperCaseLetters)} |->
        LET i == CHOOSE j \in 1..Len(UpperCaseLetters) :
                     SubSeq(UpperCaseLetters, j, j) = c
        IN  SubSeq(LowerCaseLetters, i, i)]

\* one character of String.prototype.toLowerCase
LowerChar(c) == IF c \in DOMAIN LowerCaseOf THEN LowerCaseOf[c] ELSE c

RECURSIVE toLowerCase(_)
toLowerCase(s) ==
    IF Len(s) = 0 THEN ""
    ELSE LowerChar(SubSeq(s, 1, 1)) \o toLowerCase(SubSeq(s, 2, Len(s)))

\* s.includes(t): t occurs in s as a contiguous substring
includes(s, t) ==
    \/ Len(t) = 0
    \/ \E i \in 1..(Len(s) - Len(t) + 1) : SubSeq(s, i, i + Len(t) - 1) = t

(***************************************************************************)
(* consistency-engine.js                                                   *)
(***************************************************************************)
CONSISTENT == "CONSISTENT"
WEAK == "WEAK"
CONTRADICTORY == "CONTRADICTORY"
TypeError == "TypeError"
NOT_EVALUATED == "NOT_EVALUATED"

CONSISTENCY_LEVELS == {CONSISTENT, WEAK, CONTRADICTORY}

DIMENSIONS == {"PROCESS", "CONTROL", "TOOLING", "EVIDENCE_COMPLETENESS"}

GIT_EXPECTATIONS ==
    [g \in 0..5 |->
        CASE g = 0 -> [ai_in_final |-> "AUSENCIA_EXPECTADA",
                       source_files |-> "REQUERIDOS",
                       process_evidence |-> "REQUERIDA"]
          [] g = 1 -> [ai_in_final |-> "AUSENCIA_EXPECTADA",
                       source_files |-> "REQUERIDOS",
                       process_evidence |-> "ESPERADA"]
          [] g = 2 -> [ai_in_final |-> "AUSENCIA_EXPECTADA",
                       source_files |-> "ESPERADOS",
                       process_evidence |-> "ESPERADA"]
          [] g = 3 -> [ai_in_final |-> "PARCIAL_PERMITIDO",
                       source_files |-> "ESPERADOS",
                       process_evidence |-> "ESPERADA"]
          [] g = 4 -> [ai_in_final |-> "PRESENCIA_ESPERADA",
                       source_files |-> "OPCIONAL",
                       process_evidence |-> "OPCIONAL"]
          [] g = 5 -> [ai_in_final |-> "PRESENCIA_ESPERADA",
                       source_files |-> "NO_ESPERADOS",
                       process_evidence |-> "NO_ESPERADA"]]

\* the comparisons git_level >= lo && git_level <= hi; false for undefined
GitBetween(git_level, lo, hi) ==
    git_level.k = "number" /\ git_level.v >= lo /\ git_level.v <= hi

\* variant: only 'high' raises the expectation of high-control evidence
normalizeDeclarations_onlyHigh(git_level, human_control, no_ai_final) ==
    [git_level |-> IF Truthy(git_level) THEN git_level.v ELSE 0,
     git_expectation |->
         IF git_level.k = "number" /\ git_level.v \in DOMAIN GIT_EXPECTATIONS
         THEN GIT_EXPECTATIONS[git_level.v] ELSE GIT_EXPECTATIONS[0],
     human_control_level |->
         IF Truthy(human_control) THEN human_control ELSE Str("medium"),
     no_ai_in_final_claimed |-> Truthy(no_ai_final),
     expects_source_files |-> GitBetween(git_level, 0, 1),
     expects_process_evidence |-> GitBetween(git_level, 0, 0),
     expects_ai_signals |-> GitBetween(git_level, 3, 5),
     expects_no_ai_signals |-> GitBetween(git_level, 0, 2) \/ Truthy(no_ai_final),
     expects_high_control_evidence |-> StrEq(human_control, "high")]

normalizeDeclarations(git_level, human_control, no_ai_final) ==
    LET in02 == GitBetween(git_level, 0, 2)
        in35 == GitBetween(git_level, 3, 5)
    IN  [git_level |-> IF Truthy(git_level) THEN git_level.v ELSE 0,
         git_expectation |->
             IF git_level.k = "number" /\ git_level.v \in DOMAIN GIT_EXPECTATIONS
             THEN GIT_EXPECTATIONS[git_level.v] ELSE GIT_EXPECTATIONS[0],
         human_control_level |->
             IF Truthy(human_control) THEN human_control ELSE Str("medium"),
         no_ai_in_final_claimed |-> Truthy(no_ai_final),
         expects_source_files |-> in02 /\ git_level.v <= 1,
         expects_process_evidence |-> in02 /\ git_level.v = 0,
         expects_ai_signals |-> in35,
         expects_no_ai_signals |-> in02 \/ Truthy(no_ai_final),
         expects_high_control_evidence |->
             StrEq(human_control, "high") \/ StrEq(human_control, "alto")]

\* technical_evidence?.ai_signals?.confidence || 'LOW'
aiConfidence(te) ==
    OrElse(OptProp(te.ai_signals, "confidence"), Str("LOW")).v

\* technical_evidence?.ai_signals?.aggregated_score || 0
aiScore(te) ==
    OrElse(OptProp(te.ai_signals, "aggregated_score"), Num(0)).v

\* evidence_list?.<name> || false
manifestFlag(el, name) == Truthy(OptProp(el, name))

\* variant: the AI-signal contradiction is looked for before the missing evidence
evaluateProcessDimension_signalsFirst(expectations, el, te) ==
    IF expectations.expects_no_ai_signals
       /\ aiConfidence(te) = "HIGH" /\ aiScore(te) > 70
    THEN CONTRADICTORY
    ELSE IF expectations.git_level <= 1
            /\ expectations.git_expectation.source_files = "REQUERIDOS"
            /\ ~manifestFlag(el, "has_source_files")
    THEN WEAK
    ELSE IF expectations.git_level = 0
            /\ expectations.git_expectation.process_evidence = "REQUERIDA"
            /\ ~manifestFlag(el, "has_process_evidence")
    THEN WEAK
    ELSE CONSISTENT

\* variant: a LOW score of exactly 0.3 already weakens the dimension
evaluateProcessDimension_lowInclusive(expectations, el, te) ==
    IF expectations.git_level <= 1
       /\ expectations.git_expectation.source_files = "REQUERIDOS"
       /\ ~manifestFlag(el, "has_source_files")
    THEN WEAK
    ELSE IF expectations.git_level = 0
            /\ expectations.git_expectation.process_evidence = "REQUERIDA"
            /\ ~manifestFlag(el, "has_process_evidence")
    THEN WEAK
    ELSE IF expectations.expects_no_ai_signals
            /\ aiConfidence(te) = "HIGH" /\ aiScore(te) > 70
    THEN CONTRADICTORY
    ELSE IF expectations.expects_no_ai_signals
            /\ aiConfidence(te) = "MEDIUM" /\ aiScore(te) > 60
    THEN WEAK
    ELSE IF expectations.expects_ai_signals
            /\ aiConfidence(te) = "LOW" /\ aiScore(te) <= 30
    THEN WEAK
    ELSE CONSISTENT

evaluateProcessDimension(expectations, el, te) ==
    LET git_level == expectations.git_level
        source_files == expectations.git_expectation.source_files
        process_evidence == expectations.git_expectation.process_evidence
        has_source_files == manifestFlag(el, "has_source_files")
        has_process_evidence == manifestFlag(el, "has_process_evidence")
        ai_confidence == aiConfidence(te)
        ai_score == aiScore(te)
    IN  IF git_level <= 1 /\ source_files = "REQUERIDOS" /\ ~has_source_files
        THEN WEAK
        ELSE IF git_level = 0 /\ process_evidence = "REQUERIDA"
                /\ ~has_process_evidence
        THEN WEAK
        ELSE IF expectations.expects_no_ai_signals
                /\ ai_confidence = "HIGH" /\ ai_score > 70
        THEN CONTRADICTORY
        ELSE IF expectations.expects_no_ai_signals
                /\ ai_confidence = "MEDIUM" /\ ai_score > 60
        THEN WEAK
        ELSE IF expectations.expects_ai_signals
                /\ ai_confidence = "LOW" /\ ai_score < 30
        THEN WEAK
        ELSE CONSISTENT

evaluateControlDimension(expectations, el, te) ==
    LET has_iteration_evidence == manifestFlag(el, "has_iteration_files")
        has_layers == manifestFlag(el, "has_layered_files")
        has_versions == manifestFlag(el, "has_multiple_versions")
    IN  IF ~expectations.expects_high_control_evidence
        THEN CONSISTENT
        ELSE IF ~has_iteration_evidence /\ ~has_layers /\ ~has_versions
        THEN WEAK
        ELSE IF aiConfidence(te) = "HIGH" /\ aiScore(te) > 80
        THEN CONTRADICTORY
        ELSE CONSISTENT

\* ai_tools_declared.forEach(tool => { push tool.engine, tool.custom_label })
RECURSIVE pushAiTools(_)
pushAiTools(tools) ==
    IF tools = <<>> THEN List(<<>>)
    ELSE LET tool == Head(tools)
             rest == pushAiTools(Tail(tools))
         IN  IF IsNullish(tool) \/ IsThrown(rest) THEN Thrown
             ELSE List((IF Truthy(Prop(tool, "engine"))
                        THEN <<Prop(tool, "engine")>> ELSE <<>>)
                       \o (IF Truthy(Prop(tool, "custom_label"))
                           THEN <<Prop(tool, "custom_label")>> ELSE <<>>)
                       \o rest.v)

\* the declared_tools list built from ai_tools_declared and software_used
declaredTools(d) ==
    LET ai == OptProp(OptProp(d, "genesis_declaration"), "ai_tools_declared")
        sw == OptProp(OptProp(d, "process_declaration"), "software_used")
        fromAi == IF ~Truthy(ai) THEN List(<<>>)
                  ELSE IF ~IsArray(ai) THEN Thrown
                  ELSE pushAiTools(ai.v)
        fromSw == IF ~Truthy(sw) THEN List(<<>>)
                  ELSE IF ~IsArray(sw) THEN Thrown
                  ELSE sw
    IN  IF IsThrown(fromAi) \/ IsThrown(fromSw) THEN Thrown
        ELSE List(fromAi.v \o fromSw.v)

\* declared_tools.map(t => t.toLowerCase())
lowerAll(tools) ==
    IF \E i \in 1..Len(tools) : ~IsString(tools[i]) THEN Thrown
    ELSE List([i \in 1..Len(tools) |-> toLowerCase(tools[i].v)])

\* all_declared_tools.some(declared => tool.includes(declared) || declared.includes(tool))
someDeclared(all_declared_tools, tool) ==
    \E i \in 1..Len(all_declared_tools) :
        \/ includes(toLowerCase(tool), all_declared_tools[i])
        \/ includes(all_declared_tools[i], toLowerCase(tool))

\* the value of undeclared_count after the loop over detected_software
RECURSIVE countUndeclared(_, _)
countUndeclared(detected_software, all_declared_tools) ==
    IF detected_software = <<>> THEN Num(0)
    ELSE LET tool == Head(detected_software)
             rest == countUndeclared(Tail(detected_software), all_declared_tools)
         IN  IF all_declared_tools = <<>>
             THEN IF IsThrown(rest) THEN Thrown ELSE Num(rest.v + 1)
             ELSE IF ~IsString(tool) \/ IsThrown(rest) THEN Thrown
             ELSE IF someDeclared(all_declared_tools, tool.v) THEN rest
             ELSE Num(rest.v + 1)

\* variant: the UNDECLARED_SOFTWARE flag only weakens the dimension
evaluateToolingDimension_flagWeak(te, d) ==
    LET declared_tools == declaredTools(d)
        detected_software ==
            OrElse(OptProp(te.extracted_metadata, "software"), List(<<>>))
        all_declared_tools == lowerAll(declared_tools.v)
        undeclared_count ==
            IF detected_software.k \notin {"array", "string"} THEN Num(0)
            ELSE IF Len(detected_software.v) = 0 THEN Num(0)
            ELSE IF ~IsArray(detected_software) THEN Thrown
            ELSE countUndeclared(detected_software.v, all_declared_tools.v)
    IN  IF IsThrown(declared_tools) THEN TypeError
        ELSE IF "UNDECLARED_SOFTWARE" \in Range(te.metadata_flags) THEN WEAK
        ELSE IF "SOFTWARE_SIGNATURE_UNKNOWN" \in Range(te.metadata_flags) THEN WEAK
        ELSE IF IsThrown(all_declared_tools) THEN TypeError
        ELSE IF IsThrown(undeclared_count) THEN TypeError
        ELSE IF undeclared_count.v > 1 THEN CONTRADICTORY
        ELSE IF undeclared_count.v = 1 THEN WEAK
        ELSE CONSISTENT

evaluateToolingDimension(te, d) ==
    LET declared_tools == declaredTools(d)
        detected_software ==
            OrElse(OptProp(te.extracted_metadata, "software"), List(<<>>))
        detected_ai_models ==
            OrElse(OptProp(OptProp(te.ai_signals, "fingerprint"), "model"),
                   List(<<>>))
        all_declared_tools == lowerAll(declared_tools.v)
        \* detected_software.length > 0
        nonEmpty == \/ IsArray(detected_software) /\ Len(detected_software.v) > 0
                    \/ IsString(detected_software) /\ Len(detected_software.v) > 0
        undeclared_count ==
            IF ~nonEmpty THEN Num(0)
            ELSE IF ~IsArray(detected_software) THEN Thrown
            ELSE countUndeclared(detected_software.v, all_declared_tools.v)
    IN  IF IsThrown(declared_tools) THEN TypeError
        ELSE IF "UNDECLARED_SOFTWARE" \in Range(te.metadata_flags) THEN CONTRADICTORY
        ELSE IF "SOFTWARE_SIGNATURE_UNKNOWN" \in Range(te.metadata_flags) THEN WEAK
        ELSE IF IsThrown(all_declared_tools) THEN TypeError
        ELSE IF IsThrown(undeclared_count) THEN TypeError
        ELSE IF undeclared_count.v > 1 THEN CONTRADICTORY
        ELSE IF undeclared_count.v = 1 THEN WEAK
        ELSE CONSISTENT

\* actual.<field> && promised.toLowerCase().includes(actual.<field>.toLowerCase())
matchField(promised, actual, field) ==
    LET value == Prop(actual, field)
    IN  IF ~Truthy(value) THEN Bool(FALSE)
        ELSE IF ~IsString(promised) \/ ~IsString(value) THEN Thrown
        ELSE Bool(includes(toLowerCase(promised.v), toLowerCase(value.v)))

\* actual_evidence.some(actual => type matches || name matches)
RECURSIVE someActual(_, _)
someActual(promised, actual_evidence) ==
    IF actual_evidence = <<>> THEN Bool(FALSE)
    ELSE LET actual == Head(actual_evidence)
             byType == matchField(promised, actual, "type")
             byName == matchField(promised, actual, "name")
         IN  IF IsNullish(actual) \/ IsThrown(byType) THEN Thrown
             ELSE IF byType.v THEN Bool(TRUE)
             ELSE IF IsThrown(byName) THEN Thrown
             ELSE IF byName.v THEN Bool(TRUE)
             ELSE someActual(promised, Tail(actual_evidence))

\* the promised items pushed to missing_evidence
RECURSIVE missingEvidence(_, _)
missingEvidence(declared_evidence, actual_evidence) ==
    IF declared_evidence = <<>> THEN List(<<>>)
    ELSE LET promised == Head(declared_evidence)
             found == IF ~IsArray(actual_evidence) THEN Thrown
                      ELSE someActual(promised, actual_evidence.v)
             rest == missingEvidence(Tail(declared_evidence), actual_evidence)
         IN  IF IsThrown(found) \/ IsThrown(rest) THEN Thrown
             ELSE IF found.v THEN rest
             ELSE List(<<promised>> \o rest.v)

\* variant: a single missing item already makes the dimension CONTRADICTORY
evaluateEvidenceDimension_anyMissing(el, d) ==
    LET declared_evidence ==
            OrElse(OptProp(OptProp(d, "process_declaration"), "evidence_promised"),
                   List(<<>>))
        actual_evidence == OrElse(OptProp(el, "files"), List(<<>>))
        missing_evidence ==
            IF ~IsArray(declared_evidence) THEN Thrown
            ELSE missingEvidence(declared_evidence.v, actual_evidence)
    IN  IF declared_evidence.k \in {"array", "string"} /\ Len(declared_evidence.v) = 0
        THEN CONSISTENT
        ELSE IF IsThrown(missing_evidence) THEN TypeError
        ELSE IF Len(missing_evidence.v) > 0 THEN CONTRADICTORY
        ELSE CONSISTENT

evaluateEvidenceDimension(el, d) ==
    LET declared_evidence ==
            OrElse(OptProp(OptProp(d, "process_declaration"), "evidence_promised"),
                   List(<<>>))
        actual_evidence == OrElse(OptProp(el, "files"), List(<<>>))
        \* declared_evidence.length === 0
        empty == /\ declared_evidence.k \in {"array", "string"}
                 /\ Len(declared_evidence.v) = 0
        missing_evidence ==
            IF ~IsArray(declared_evidence) THEN Thrown
            ELSE missingEvidence(declared_evidence.v, actual_evidence)
    IN  IF empty THEN CONSISTENT
        ELSE IF IsThrown(missing_evidence) THEN TypeError
        ELSE IF Len(missing_evidence.v) = Len(declared_evidence.v)
        THEN CONTRADICTORY
        ELSE IF Len(missing_evidence.v) > 0 THEN WEAK
        ELSE CONSISTENT

\* variant: WEAK is looked for before CONTRADICTORY
calculateGlobalConsistency_weakFirst(dimensionResults) ==
    IF \E dim \in DOMAIN dimensionResults : dimensionResults[dim] = WEAK
    THEN WEAK
    ELSE IF \E dim \in DOMAIN dimensionResults : dimensionResults[dim] = CONTRADICTORY
    THEN CONTRADICTORY
    ELSE CONSISTENT

calculateGlobalConsistency(dimensionResults) ==
    IF \E dim \in DOMAIN dimensionResults : dimensionResults[dim] = CONTRADICTORY
    THEN CONTRADICTORY
    ELSE IF \E dim \in DOMAIN dimensionResults : dimensionResults[dim] = WEAK
    THEN WEAK
    ELSE CONSISTENT

\* variant: only the WEAK dimensions are recorded
affectedDimensions_weakOnly(dimensionResults) ==
    {dim \in DOMAIN dimensionResults : dimensionResults[dim] = WEAK}

\* Object.entries(dimensionResults).filter(result !== CONSISTENT).map(dimension)
affectedDimensions(dimensionResults) ==
    {dim \in DOMAIN dimensionResults : dimensionResults[dim] # CONSISTENT}

\* the outcome of one call: the returned record, or a raised TypeError;
\* expectations and dimensions are the intermediate values of the call
evaluateConsistency(d, te, el) ==
    LET expectations ==
            normalizeDeclarations(
                OptProp(OptProp(d, "genesis_declaration"), "declared_git_level"),
                OptProp(d, "declared_human_control"),
                OptProp(OptProp(d, "process_declaration"), "no_ai_in_final"))
        tooling == evaluateToolingDimension(te, d)
        \* the dimensions are evaluated in this order; one that follows a
        \* TypeError is not evaluated
        dimensionResults ==
            [dim \in DIMENSIONS |->
                CASE dim = "PROCESS" -> evaluateProcessDimension(expectations, el, te)
                  [] dim = "CONTROL" -> evaluateControlDimension(expectations, el, te)
                  [] dim = "TOOLING" -> tooling
                  [] dim = "EVIDENCE_COMPLETENESS" ->
                        IF tooling = TypeError THEN NOT_EVALUATED
                        ELSE evaluateEvidenceDimension(el, d)]
    IN  IF \E dim \in DIMENSIONS : dimensionResults[dim] = TypeError
        THEN [status |-> "raised",
              expectations |-> expectations,
              dimensions |-> dimensionResults,
              consistency_result |-> TypeError,
              affected_dimensions |-> {}]
        ELSE [status |-> "returned",
              expectations |-> expectations,
              dimensions |-> dimensionResults,
              consistency_result |-> calculateGlobalConsistency(dimensionResults),
              affected_dimensions |-> affectedDimensions(dimensionResults)]

(***************************************************************************)
(* metadata-analyzer.js                                                    *)
(***************************************************************************)
ANALYSIS_VERSION == "3.1.0"

METADATA_MISSING == "METADATA_MISSING"
UNDECLARED_SOFTWARE == "UNDECLARED_SOFTWARE"
TIMELINE_INCONSISTENCY == "TIMELINE_INCONSISTENCY"
FORMAT_VERSION_MISMATCH == "FORMAT_VERSION_MISMATCH"
SOFTWARE_SIGNATURE_UNKNOWN == "SOFTWARE_SIGNATURE_UNKNOWN"

\* flags.add(flag) on the insertion-ordered Set of flags
addFlag(flags, flag) == IF flag \in Range(flags) THEN flags ELSE Append(flags, flag)

\* the first truthy value of a list of values, or undefined
RECURSIVE findTruthy(_)
findTruthy(values) ==
    IF values = <<>> THEN Undefined
    ELSE IF Truthy(Head(values)) THEN Head(values)
    ELSE findTruthy(Tail(values))

\* the truthy values of a list
RECURSIVE filterTruthy(_)
filterTruthy(values) ==
    IF values = <<>> THEN <<>>
    ELSE (IF Truthy(Head(values)) THEN <<Head(values)>> ELSE <<>>)
         \o filterTruthy(Tail(values))

\* new Date(value).getFullYear(): a date value [k |-> "date", v |-> year]
\* parses to its year, anything else to an invalid date whose year is NaN
getFullYear(value) == IF value.k = "date" THEN Num(value.v) ELSE [k |-> "NaN", v |-> 0]

checkTimelineConsistency(metadata, intake_json, flags) ==
    LET declaredYear ==
            OptProp(OptProp(intake_json, "artist_declaration"), "execution_year")
        foundDate == findTruthy(<<Prop(metadata, "DateTimeOriginal"),
                                  Prop(metadata, "CreateDate"),
                                  Prop(metadata, "ModifyDate"),
                                  Prop(metadata, "DateCreated"),
                                  Prop(metadata, "CreationDate")>>)
        year == getFullYear(foundDate)
        \* metadataDate.getFullYear() !== declaredYear
        differs == ~(year.k = "number" /\ declaredYear.k = "number"
                     /\ year.v = declaredYear.v)
    IN  IF Truthy(declaredYear) /\ Truthy(foundDate) /\ differs
        THEN addFlag(flags, TIMELINE_INCONSISTENCY)
        ELSE flags

\* variant: only a declared name contained in the signature counts as a match
RECURSIVE isDeclared_oneWay(_, _)
isDeclared_oneWay(software, declaredToolList) ==
    IF declaredToolList = <<>> THEN Bool(FALSE)
    ELSE LET declared == Head(declaredToolList)
         IN  IF ~IsString(software) \/ ~IsString(declared) THEN Thrown
             ELSE IF includes(toLowerCase(software.v), toLowerCase(declared.v))
             THEN Bool(TRUE)
             ELSE isDeclared_oneWay(software, Tail(declaredToolList))

\* declaredTools.some(declared => software matches declared), in order;
\* Bool(found), or Thrown when toLowerCase is called on a non-string
RECURSIVE isDeclared(_, _)
isDeclared(software, declaredToolList) ==
    IF declaredToolList = <<>> THEN Bool(FALSE)
    ELSE LET declared == Head(declaredToolList)
         IN  IF ~IsString(software) \/ ~IsString(declared) THEN Thrown
             ELSE IF \/ includes(toLowerCase(software.v), toLowerCase(declared.v))
                     \/ includes(toLowerCase(declared.v), toLowerCase(software.v))
             THEN Bool(TRUE)
             ELSE isDeclared(software, Tail(declaredToolList))

\* detectedSoftware.forEach(...): the flags after the loop, and whether it threw
RECURSIVE flagUndeclared(_, _, _)
flagUndeclared(detectedSoftware, declaredToolList, flags) ==
    IF detectedSoftware = <<>> THEN [flags |-> flags, thrown |-> FALSE]
    ELSE LET found == isDeclared(Head(detectedSoftware), declaredToolList)
         IN  IF IsThrown(found) THEN [flags |-> flags, thrown |-> TRUE]
             ELSE flagUndeclared(Tail(detectedSoftware), declaredToolList,
                                 IF found.v THEN flags
                                 ELSE addFlag(flags, UNDECLARED_SOFTWARE))

checkSoftwareSignatures(metadata, intake_json, flags) ==
    LET detectedSoftware == filterTruthy(<<Prop(metadata, "Software"),
                                           Prop(metadata, "CreatorTool"),
                                           Prop(metadata, "Application"),
                                           Prop(metadata, "ProcessingSoftware")>>)
        declaredToolList == declaredTools(intake_json)
    IN  IF detectedSoftware = <<>> THEN [flags |-> flags, thrown |-> FALSE]
        ELSE IF IsThrown(declaredToolList) THEN [flags |-> flags, thrown |-> TRUE]
        ELSE IF Len(declaredToolList.v) > 0
        THEN flagUndeclared(detectedSoftware, declaredToolList.v, flags)
        ELSE [flags |-> addFlag(flags, SOFTWARE_SIGNATURE_UNKNOWN), thrown |-> FALSE]

\* variant: the formats are compared without lower-casing them
checkFormatConsistency_caseSensitive(metadata, intake_json, flags) ==
    LET declaredFormat ==
            OptProp(OptProp(intake_json, "artist_declaration"), "file_format")
        FileType == Prop(metadata, "FileType")
    IN  IF ~(Truthy(declaredFormat) /\ Truthy(FileType))
        THEN [flags |-> flags, thrown |-> FALSE]
        ELSE IF ~IsString(FileType) \/ ~IsString(declaredFormat)
        THEN [flags |-> flags, thrown |-> TRUE]
        ELSE IF /\ ~includes(FileType.v, declaredFormat.v)
                /\ ~includes(declaredFormat.v, FileType.v)
        THEN [flags |-> addFlag(flags, FORMAT_VERSION_MISMATCH), thrown |-> FALSE]
        ELSE [flags |-> flags, thrown |-> FALSE]

checkFormatConsistency(metadata, intake_json, flags) ==
    LET declaredFormat ==
            OptProp(OptProp(intake_json, "artist_declaration"), "file_format")
        FileType == Prop(metadata, "FileType")
    IN  IF ~(Truthy(declaredFormat) /\ Truthy(FileType))
        THEN [flags |-> flags, thrown |-> FALSE]
        ELSE IF ~IsString(FileType) \/ ~IsString(declaredFormat)
        THEN [flags |-> flags, thrown |-> TRUE]
        ELSE IF /\ ~includes(toLowerCase(FileType.v), toLowerCase(declaredFormat.v))
                /\ ~includes(toLowerCase(declaredFormat.v), toLowerCase(FileType.v))
        THEN [flags |-> addFlag(flags, FORMAT_VERSION_MISMATCH), thrown |-> FALSE]
        ELSE [flags |-> flags, thrown |-> FALSE]

\* the record read from the downloaded file; a reader failure gives {}
extractTechnicalMetadata(f) ==
    IF f.reader = "error" THEN Obj(<<>>) ELSE f.tags

\* Object.keys(metadata).length; a field that is undefined is an absent key
keyCount(metadata) ==
    Cardinality({name \in DOMAIN metadata.v : metadata.v[name].k # "undefined"})

\* the checks are reached and one of them throws into the catch of the analysis
checksThrow(intake_json, f) ==
    LET metadata == extractTechnicalMetadata(f)
        timeline == checkTimelineConsistency(metadata, intake_json, <<>>)
        software == checkSoftwareSignatures(metadata, intake_json, timeline)
        format == checkFormatConsistency(metadata, intake_json, software.flags)
    IN  /\ Truthy(f.file_url)
        /\ f.download = "ok"
        /\ f.readFile = "ok"
        /\ Truthy(f.fileType)
        /\ keyCount(metadata) > 0
        /\ (software.thrown \/ format.thrown)

\* the flags of the returned record, in insertion order
analyzeMetadataFlags(intake_json, f) ==
    LET metadata == extractTechnicalMetadata(f)
        timeline == checkTimelineConsistency(metadata, intake_json, <<>>)
        software == checkSoftwareSignatures(metadata, intake_json, timeline)
        format == checkFormatConsistency(metadata, intake_json, software.flags)
    IN  IF ~Truthy(f.file_url) THEN <<METADATA_MISSING>>
        ELSE IF f.download = "error" THEN <<METADATA_MISSING>>
        ELSE IF f.readFile = "error" THEN <<METADATA_MISSING>>
        ELSE IF ~Truthy(f.fileType) THEN <<METADATA_MISSING>>
        ELSE IF keyCount(metadata) = 0 THEN <<METADATA_MISSING>>
        ELSE IF software.thrown THEN addFlag(software.flags, METADATA_MISSING)
        ELSE IF format.thrown THEN addFlag(format.flags, METADATA_MISSING)
        ELSE format.flags

\* downloadFile resolved: tempFilePath is set
tempFilePath(f) == Truthy(f.file_url) /\ f.download = "ok"

\* variant: fs.unlink is awaited outside any try
cleanupTemp_unguarded(f) ==
    IF tempFilePath(f) /\ f.unlink = "error" THEN "raised" ELSE "done"

\* the finally block: fs.unlink inside its own try/catch
cleanupTemp(f) ==
    IF tempFilePath(f)
    THEN IF f.unlink = "error" THEN "done" ELSE "done"
    ELSE "done"

\* temporary files the call leaves behind: the copy is created when the
\* download succeeds and stays when unlink rejects
leftoverTemp(f) == IF tempFilePath(f) /\ f.unlink = "error" THEN 1 ELSE 0

\* the outcome of one call: the returned record, or an exception that leaves
\* the finally block
analyzeMetadata(intake_json, f) ==
    [status |-> IF tempFilePath(f) /\ cleanupTemp(f) = "raised"
                THEN "raised" ELSE "returned",
     metadata_flags |-> analyzeMetadataFlags(intake_json, f),
     analysis_version |-> ANALYSIS_VERSION]

EXTRACTION_VERSION == "3.1.0"

\* detectExportChain: more than one software-identity field is present
detectExportChain(metadata) ==
    Len(filterTruthy(<<Prop(metadata, "software"), Prop(metadata, "creator_tool"),
                       Prop(metadata, "application"),
                       Prop(metadata, "processing_software")>>)) > 1

\* the raw keys under their stable names, plus export_chain_detected
normalizeMetadata(rawMetadata) ==
    LET normalized ==
            Obj([software |-> Prop(rawMetadata, "Software"),
                 creator_tool |-> Prop(rawMetadata, "CreatorTool"),
                 date_time_original |-> Prop(rawMetadata, "DateTimeOriginal"),
                 create_date |-> Prop(rawMetadata, "CreateDate"),
                 file_type |-> Prop(rawMetadata, "FileType")])
    IN  Obj([software |-> Prop(rawMetadata, "Software"),
             creator_tool |-> Prop(rawMetadata, "CreatorTool"),
             date_time_original |-> Prop(rawMetadata, "DateTimeOriginal"),
             create_date |-> Prop(rawMetadata, "CreateDate"),
             file_type |-> Prop(rawMetadata, "FileType"),
             export_chain_detected |-> Bool(detectExportChain(normalized))])

\* the record returned when the extraction failed
extractionFailure(message) ==
    [status |-> "returned", metadata |-> Obj(<<>>),
     extraction_version |-> EXTRACTION_VERSION, extraction_error |-> Str(message)]

\* the outcome of one call of extractEvidenceMetadata(file_url)
extractEvidenceMetadata(f) ==
    IF ~tempFilePath(f) THEN extractionFailure("download failed")
    ELSE IF cleanupTemp(f) = "raised"
    THEN [status |-> "raised", metadata |-> Obj(<<>>),
          extraction_version |-> EXTRACTION_VERSION, extraction_error |-> Undefined]
    ELSE IF f.readFile = "error" THEN extractionFailure("read failed")
    ELSE IF ~Truthy(f.fileType)
    THEN extractionFailure("Tipo de archivo no identificable")
    ELSE [status |-> "returned",
          metadata |-> normalizeMetadata(extractTechnicalMetadata(f)),
          extraction_version |-> EXTRACTION_VERSION,
          extraction_error |-> Undefined]

(***************************************************************************)
(* server.js: aggregation of the detector signals                          *)
(* Scores and reliabilities are in hundredths.                             *)
(***************************************************************************)
\* typeof x === 'number'
isNumber(x) == x.k = "number"

\* the two running totals of calculateWeightedAggregation after the loop;
\* totalScore is in ten-thousandths, totalReliability in hundredths
RECURSIVE weightedTotals(_)
weightedTotals(signals) ==
    IF signals = <<>> THEN [totalScore |-> 0, totalReliability |-> 0]
    ELSE LET signal == Head(signals)
             rest == weightedTotals(Tail(signals))
         IN  IF Truthy(signal) /\ isNumber(Prop(signal, "score"))
                /\ isNumber(Prop(signal, "reliability"))
             THEN [totalScore |-> Prop(signal, "score").v
                                      * Prop(signal, "reliability").v
                                  + rest.totalScore,
                   totalReliability |-> Prop(signal, "reliability").v
                                        + rest.totalReliability]
             ELSE rest

\* the totals when every signal with a numeric score weighs the same
RECURSIVE unweightedTotals(_)
unweightedTotals(signals) ==
    IF signals = <<>> THEN [totalScore |-> 0, totalReliability |-> 0]
    ELSE LET signal == Head(signals)
             rest == unweightedTotals(Tail(signals))
         IN  IF Truthy(signal) /\ isNumber(Prop(signal, "score"))
                /\ isNumber(Prop(signal, "reliability"))
             THEN [totalScore |-> Prop(signal, "score").v * 100 + rest.totalScore,
                   totalReliability |-> 100 + rest.totalReliability]
             ELSE rest

\* variant: the plain mean of the counted scores
calculateWeightedAggregation_unweighted(signals) ==
    LET t == unweightedTotals(signals)
    IN  IF t.totalReliability > 0
        THEN [num |-> t.totalScore, den |-> t.totalReliability]
        ELSE [num |-> 0, den |-> 1]

\* calculateWeightedAggregation(signals); the quotient is kept exact as
\* num / den, in hundredths
calculateWeightedAggregation(signals) ==
    LET t == weightedTotals(signals)
    IN  IF t.totalReliability > 0
        THEN [num |-> t.totalScore, den |-> t.totalReliability]
        ELSE [num |-> 0, den |-> 1]

\* Object.values(signals).filter(s => s && typeof s.score === 'number')
\*                       .map(s => s.score)
RECURSIVE numericScores(_)
numericScores(signals) ==
    IF signals = <<>> THEN <<>>
    ELSE LET s == Head(signals)
             rest == numericScores(Tail(signals))
         IN  IF Truthy(s) /\ isNumber(Prop(s, "score"))
             THEN <<Prop(s, "score").v>> \o rest
             ELSE rest

\* scores.reduce((a, b) => a + b, 0)
RECURSIVE sumOf(_)
sumOf(scores) == IF scores = <<>> THEN 0 ELSE Head(scores) + sumOf(Tail(scores))

\* the sum of (n * b - total)^2 over the scores b, which is n^2 times the sum
\* of (b - mean)^2
RECURSIVE squaredDeviations(_, _, _)
squaredDeviations(scores, total, n) ==
    IF scores = <<>> THEN 0
    ELSE (n * Head(scores) - total) * (n * Head(scores) - total)
         + squaredDeviations(Tail(scores), total, n)

\* variant: the variance divides by n - 1
lowVariance_sample(scores) ==
    LET n == Len(scores)
    IN  squaredDeviations(scores, sumOf(scores), n) < 500 * n * n * (n - 1)

\* variance < 0.05, the variance being the mean of the squared deviations from
\* the mean; both sides are multiplied by n^3
lowVariance(scores) ==
    LET n == Len(scores)
    IN  squaredDeviations(scores, sumOf(scores), n) < 500 * n * n * n

\* Object.values(signals).filter(s => s && s.reliability > 0.7).length
RECURSIVE reliableCount(_)
reliableCount(signals) ==
    IF signals = <<>> THEN 0
    ELSE LET s == Head(signals)
         IN  (IF Truthy(s) /\ isNumber(Prop(s, "reliability"))
                 /\ Prop(s, "reliability").v > 70
              THEN 1 ELSE 0) + reliableCount(Tail(signals))

\* variant: a reliability of 0.5 or more counts as high
highReliability_half(signals) ==
    Len(SelectSeq(signals, LAMBDA s : Truthy(s) /\ isNumber(Prop(s, "reliability"))
                                      /\ Prop(s, "reliability").v >= 50)) >= 3

highReliability(signals) == reliableCount(signals) >= 3

\* variant: MEDIUM asks for exactly three scores
calculateConfidence_exactlyThree(signals, integrity) ==
    LET scores == numericScores(signals)
        scoreCount == Len(scores)
    IN  IF scoreCount = 0 THEN "LOW"
        ELSE IF scoreCount >= 4 /\ lowVariance(scores) /\ highReliability(signals)
                /\ integrity
        THEN "HIGH"
        ELSE IF scoreCount = 3 /\ integrity THEN "MEDIUM"
        ELSE "LOW"

\* calculateConfidence(signals, metadataIntegrity)
calculateConfidence(signals, integrity) ==
    LET scores == numericScores(signals)
        scoreCount == Len(scores)
    IN  IF scoreCount = 0 THEN "LOW"
        ELSE IF scoreCount >= 4 /\ lowVariance(scores) /\ highReliability(signals)
                /\ integrity
        THEN "HIGH"
        ELSE IF scoreCount >= 3 /\ integrity THEN "MEDIUM"
        ELSE "LOW"

\* const metadataIntegrity = Object.keys(metadata).length > 5
metadataIntegrity(metadata) == keyCount(metadata) > 5

\* what the ai-signals analysis computes from the detector outputs and the
\* stored metadata of the evidence
analyzeSignals(signals, metadata) ==
    [status |-> "returned",
     aggregated_score |-> calculateWeightedAggregation(signals),
     confidence |-> calculateConfidence(signals, metadataIntegrity(metadata))]

(***************************************************************************)
(* Requests: the bounded inputs                                            *)
(***************************************************************************)
MaxDeclared == 2   \* entries of ai_tools_declared
MaxDetected == 2   \* entries of the detected software list
MaxPromised == 2   \* entries of evidence_promised
MaxFiles == 2      \* entries of the manifest's files
MaxSignals == 5    \* detector outputs handed to calculateConfidence
MaxAggregated == 3 \* detector outputs handed to calculateWeightedAggregation

SeqsUpTo(S, n) == UNION {[1..m -> S] : m \in 0..n}

Declaration(git, control, no_ai, ai_tools, software_used, promised, year, format) ==
    Obj([genesis_declaration |->
             Obj([declared_git_level |-> git, ai_tools_declared |-> ai_tools]),
         declared_human_control |-> control,
         process_declaration |->
             Obj([no_ai_in_final |-> no_ai,
                  software_used |-> software_used,
                  evidence_promised |-> promised]),
         artist_declaration |->
             Obj([execution_year |-> year, file_format |-> format])])

AiTool(engine, custom_label) == Obj([engine |-> engine, custom_label |-> custom_label])

Manifest(src, proc, iter, layers, versions, files) ==
    Obj([has_source_files |-> Bool(src),
         has_process_evidence |-> Bool(proc),
         has_iteration_files |-> Bool(iter),
         has_layered_files |-> Bool(layers),
         has_multiple_versions |-> Bool(versions),
         files |-> files])

EvidenceItem(type, name) == Obj([type |-> type, name |-> name])

Signals(confidence, score, models) ==
    Obj([confidence |-> Str(confidence),
         aggregated_score |-> Num(score),
         fingerprint |-> Obj([model |-> models])])

Technical(flags, software, signals) ==
    [metadata_flags |-> flags,
     extracted_metadata |-> Obj([software |-> software]),
     ai_signals |-> signals]

Tags(software, creator_tool, date, file_type) ==
    Obj([Software |-> software, CreatorTool |-> creator_tool,
         DateTimeOriginal |-> date, FileType |-> file_type])

\* tags of a PNG file that carries up to two date fields
DatedTags(date, create_date) ==
    Obj([Software |-> Undefined, CreatorTool |-> Undefined,
         DateTimeOriginal |-> date, CreateDate |-> create_date,
         FileType |-> Str("PNG")])

NoTags == Tags(Undefined, Undefined, Undefined, Undefined)

File(file_url, download, readFile, fileType, reader, tags) ==
    [file_url |-> file_url, download |-> download, readFile |-> readFile,
     unlink |-> "ok",
     fileType |-> fileType, reader |-> reader, tags |-> tags]

\* the same file, whose temporary copy cannot be deleted
WithFailingCleanup(f) == [f EXCEPT !.unlink = "error"]

NoFile == File(Null, "ok", "ok", Undefined, "ok", NoTags)

Date(year) == [k |-> "date", v |-> year]

TagRecords ==
    {Tags(software, creator_tool, date, file_type) :
        software \in {Undefined, Str("midjourney-v6-export"), Str("GIMP")},
        creator_tool \in {Undefined, Str("PHOTO")},
        date \in {Undefined, Date(2023), Date(2021), Str("not a date")},
        file_type \in {Undefined, Str("PNG"), Str("JPEG")}}
    \cup {DatedTags(date, create_date) :
             date \in {Undefined, Date(2023), Date(2021), Str("not a date")},
             create_date \in {Undefined, Date(2023), Date(2021), Str("not a date")}}

Files ==
    {NoFile,
     File(Str("https://files/a"), "error", "ok", Undefined, "ok", NoTags),
     File(Str("https://files/a"), "ok", "error", Undefined, "ok", NoTags),
     File(Str("https://files/a"), "ok", "ok", Undefined, "ok", NoTags),
     File(Str("https://files/a"), "ok", "ok", Str("image/png"), "error", NoTags)}
    \cup {File(Str("https://files/a"), "ok", "ok", Str("image/png"), "ok", tags) :
             tags \in TagRecords}
    \cup {WithFailingCleanup(f) :
             f \in {File(Str("https://files/a"), "ok", "error", Undefined, "ok", NoTags),
                    File(Str("https://files/a"), "ok", "ok", Undefined, "ok", NoTags),
                    File(Str("https://files/a"), "ok", "ok", Str("image/png"), "error",
                         NoTags),
                    File(Str("https://files/a"), "ok", "ok", Str("image/png"), "ok",
                         Tags(Str("GIMP"), Str("PHOTO"), Date(2021), Str("PNG")))}}

GitLevels == {Undefined} \cup {Num(g) : g \in 0..5}
ControlLevels == {Undefined, Str("medium"), Str("high"), Str("alto")}
NoAiFlags == {Undefined, Bool(FALSE), Bool(TRUE)}

Confidences == {"LOW", "MEDIUM", "HIGH"}
Scores == {25, 30, 65, 70, 75, 80, 85}
SignalResults == {Null} \cup {Signals(c, x, Undefined) : c \in Confidences, x \in Scores}

AiTools == {AiTool(Str("Midjourney"), Undefined),
            AiTool(Undefined, Str("Photoshop"))}
AiToolLists == {Undefined} \cup {List(q) : q \in SeqsUpTo(AiTools, MaxDeclared)}
SoftwareUsed == {Undefined, List(<<Str("Krita")>>)}

DetectedNames == {Str("midjourney-v6-export"), Str("PHOTO"), Str("GIMP")}
DetectedLists == {Undefined} \cup {List(q) : q \in SeqsUpTo(DetectedNames, MaxDetected)}
ModelLists == {Undefined, List(<<Str("DALL-E"), Str("Stable Diffusion")>>)}

FlagLists == {<<>>, <<METADATA_MISSING>>, <<UNDECLARED_SOFTWARE>>,
              <<SOFTWARE_SIGNATURE_UNKNOWN>>,
              <<SOFTWARE_SIGNATURE_UNKNOWN, UNDECLARED_SOFTWARE>>,
              <<TIMELINE_INCONSISTENCY, FORMAT_VERSION_MISMATCH>>}

PromisedItems == {Str("sketch"), Str("layered_psd")}
PromisedLists == {Undefined} \cup {List(q) : q \in SeqsUpTo(PromisedItems, MaxPromised)}
EvidenceItems == {EvidenceItem(Str("sketch"), Undefined),
                  EvidenceItem(Undefined, Str("PSD")),
                  EvidenceItem(Str("photo"), Str("studio"))}
FileLists == {Undefined} \cup {List(q) : q \in SeqsUpTo(EvidenceItems, MaxFiles)}

Request(d, f, te, el) ==
    [intake_declarations |-> d, file |-> f, technical_evidence |-> te,
     evidence_list |-> el, detectors |-> <<>>]

\* requests that vary what the PROCESS dimension reads
ProcessRequests ==
    {Request(Declaration(git, Undefined, no_ai, Undefined, Undefined, Undefined,
                         Undefined, Undefined),
             NoFile,
             Technical(<<>>, Undefined, signals),
             Manifest(src, proc, FALSE, FALSE, FALSE, Undefined)) :
        git \in GitLevels, no_ai \in NoAiFlags, signals \in SignalResults,
        src \in BOOLEAN, proc \in BOOLEAN}

\* requests that vary what the CONTROL dimension reads
ControlRequests ==
    {Request(Declaration(Num(4), control, Undefined, Undefined, Undefined,
                         Undefined, Undefined, Undefined),
             NoFile,
             Technical(<<>>, Undefined, signals),
             Manifest(TRUE, TRUE, iter, layers, versions, Undefined)) :
        control \in ControlLevels, signals \in SignalResults, iter \in BOOLEAN,
        layers \in BOOLEAN, versions \in BOOLEAN}

\* requests that vary what the TOOLING dimension reads
ToolingRequests ==
    {Request(Declaration(Num(2), Undefined, Undefined, ai_tools, software_used,
                         Undefined, Undefined, Undefined),
             NoFile,
             Technical(flags, software,
                       IF models = Undefined THEN Null
                       ELSE Signals("LOW", 25, models)),
             Manifest(FALSE, FALSE, FALSE, FALSE, FALSE, Undefined)) :
        ai_tools \in AiToolLists, software_used \in SoftwareUsed,
        flags \in FlagLists, software \in DetectedLists, models \in ModelLists}

\* requests that vary what the EVIDENCE_COMPLETENESS dimension reads
EvidenceRequests ==
    {Request(Declaration(git, control, Undefined, Undefined, Undefined, promised,
                         Undefined, Undefined),
             NoFile,
             Technical(<<METADATA_MISSING>>, Undefined, Null),
             Manifest(FALSE, FALSE, iter, FALSE, FALSE, files)) :
        git \in {Num(0), Num(1)}, control \in {Undefined, Str("high")},
        promised \in PromisedLists, files \in FileLists, iter \in BOOLEAN}

\* requests in which every dimension takes each of its verdicts
CrossRequests ==
    {Request(Declaration(git, control, Undefined,
                         List(<<AiTool(Str("Midjourney"), Undefined)>>), Undefined,
                         List(<<Str("sketch"), Str("layered_psd")>>),
                         Undefined, Undefined),
             NoFile,
             Technical(<<>>, software, Signals("HIGH", 85, Undefined)),
             Manifest(FALSE, FALSE, iter, FALSE, FALSE, files)) :
        git \in {Num(0), Num(2), Num(4)}, control \in {Str("medium"), Str("high")},
        iter \in BOOLEAN,
        software \in {List(<<>>), List(<<Str("GIMP")>>),
                      List(<<Str("GIMP"), Str("PHOTO")>>)},
        files \in {List(<<>>), List(<<EvidenceItem(Str("sketch"), Undefined)>>),
                   List(<<EvidenceItem(Str("sketch"), Undefined),
                          EvidenceItem(Undefined, Str("PSD"))>>)}}

\* requests that vary what analyzeMetadata reads; the extracted software is
\* absent or the file's Software tag, as the extraction stores it
AnalysisRequests ==
    UNION {{Request(Declaration(Num(2), Undefined, Undefined, ai_tools, Undefined,
                                Undefined, year, format),
                    f,
                    Technical(<<>>, software, Null),
                    Manifest(FALSE, FALSE, FALSE, FALSE, FALSE, Undefined)) :
               ai_tools \in {Undefined,
                             List(<<AiTool(Str("Midjourney"), Undefined)>>),
                             List(<<AiTool(Undefined, Str("Photoshop"))>>)},
               year \in {Undefined, Num(2023)},
               format \in {Undefined, Str("png"), Str("png-24")},
               software \in {Undefined, Prop(f.tags, "Software")}} :
           f \in Files}

MalformedAiTools ==
    {Str("Midjourney"), List(<<Null>>), List(<<Str("Midjourney")>>),
     List(<<AiTool(Num(5), Undefined)>>)}
MalformedSoftwareUsed == {Str("Krita"), List(<<Null>>), List(<<Num(5)>>)}
MalformedPromised == {Str("sketch"), List(<<Num(5)>>)}
MalformedFiles ==
    {Str("sketch.png"), List(<<Null>>), List(<<EvidenceItem(Num(5), Undefined)>>)}
MalformedSoftware == {Str("midjourney-v6-export"), List(<<Num(5)>>)}

\* requests with missing or malformed inputs
MalformedRequests ==
    {Request(d, NoFile, Technical(<<>>, software, Null), el) :
        d \in {Null}
              \cup {Declaration(Num(2), Undefined, Undefined, ai_tools,
                                software_used, promised, Undefined, Undefined) :
                      ai_tools \in MalformedAiTools \cup
                          {Undefined, List(<<AiTool(Str("Midjourney"), Undefined)>>)},
                      software_used \in MalformedSoftwareUsed \cup {Undefined},
                      promised \in MalformedPromised \cup
                          {Undefined, List(<<Str("sketch")>>)}},
        software \in MalformedSoftware \cup {Undefined, List(<<Str("GIMP")>>)},
        el \in {Null}
               \cup {Manifest(TRUE, TRUE, FALSE, FALSE, FALSE, files) :
                       files \in MalformedFiles \cup
                           {Undefined,
                            List(<<EvidenceItem(Str("sketch"), Undefined)>>)}}}

\* requests that vary what normalizeDeclarations reads, each under different
\* technical evidence and manifests
ExpectationRequests ==
    {Request(Declaration(git, control, no_ai, Undefined, Undefined, Undefined,
                         Undefined, Undefined),
             NoFile,
             Technical(<<>>, Undefined, signals),
             Manifest(src, src, src, FALSE, FALSE, Undefined)) :
        git \in GitLevels, control \in ControlLevels, no_ai \in NoAiFlags,
        signals \in {Null, Signals("HIGH", 85, Undefined)}, src \in BOOLEAN}

\* analyses of files under declarations on which a check throws
FaultyDeclarations ==
    UNION {{Declaration(Num(2), Undefined, Undefined, Undefined,
                        Str("Photoshop"), Undefined, year, Undefined),
            Declaration(Num(2), Undefined, Undefined, List(<<Null>>),
                        Undefined, Undefined, year, Undefined),
            Declaration(Num(2), Undefined, Undefined, Undefined,
                        Undefined, Undefined, year, Num(5))} :
           year \in {Undefined, Num(2023)}}

FaultyAnalysisRequests ==
    {Request(d, f, Technical(<<>>, Undefined, Null),
             Manifest(FALSE, FALSE, FALSE, FALSE, FALSE, Undefined)) :
        d \in FaultyDeclarations, f \in Files}

\* one detector output
Signal(score, reliability) == Obj([score |-> score, reliability |-> reliability])

\* the metadata stored for the evidence: five tags give six keys, four give five
StoredMetadata ==
    {normalizeMetadata(Obj([Software |-> Str("GIMP"), CreatorTool |-> Str("PHOTO"),
                            DateTimeOriginal |-> Date(2023),
                            CreateDate |-> create_date, FileType |-> Str("PNG")])) :
        create_date \in {Undefined, Date(2023)}}

SignalRequest(signals, metadata) ==
    [Request(Declaration(Undefined, Undefined, Undefined, Undefined, Undefined,
                         Undefined, Undefined, Undefined),
             NoFile,
             [Technical(<<>>, Undefined, Null) EXCEPT !.extracted_metadata = metadata],
             Undefined)
     EXCEPT !.detectors = signals]

\* detector outputs that vary what calculateConfidence reads: missing entries,
\* entries without a score, scores close and far apart, reliabilities at and
\* above 0.7
ConfidenceSignals ==
    {Null, Signal(Undefined, Num(90))}
    \cup {Signal(Num(score), Num(reliability)) :
             score \in {20, 70}, reliability \in {70, 90}}

ConfidenceRequests ==
    {SignalRequest(signals, metadata) :
        signals \in SeqsUpTo(ConfidenceSignals, MaxSignals),
        metadata \in StoredMetadata}

\* detector outputs that vary what calculateWeightedAggregation reads: missing
\* entries, a missing score or reliability, reliabilities of 0
AggregationSignals ==
    {Null}
    \cup {Signal(score, reliability) :
             score \in {Undefined, Num(0), Num(100)},
             reliability \in {Undefined, Num(0), Num(50), Num(100)}}

AggregationRequests ==
    {SignalRequest(signals, metadata) :
        signals \in SeqsUpTo(AggregationSignals, MaxAggregated),
        metadata \in {Obj(<<>>)}}

NotRun == [status |-> "not_run"]

\* the store before any insert
EmptyStore ==
    [intake_frozen |-> <<>>, audit_cases |-> <<>>, audit_logs |-> <<>>,
     evidence_metadata |-> <<>>, ai_signal_results |-> <<>>]

\* evaluated is the technical evidence the handler handed to the engine
NoResponse ==
    [endpoint |-> "none", status |-> 0, body |-> Undefined, evaluated |-> Undefined]

\* a request of the set R arrives; nothing has run yet
Arrives(R) ==
    /\ \E r \in R :
        /\ intake_declarations = r.intake_declarations
        /\ file = r.file
        /\ technical_evidence = r.technical_evidence
        /\ evidence_list = r.evidence_list
        /\ detectors = r.detectors
    /\ analysis = NotRun
    /\ extraction = NotRun
    /\ consistency = NotRun
    /\ signal_result = NotRun
    /\ store = EmptyStore
    /\ response = NoResponse
    /\ temp_files = 0
    /\ calls = 0

Init ==
    \/ Arrives(ProcessRequests)
    \/ Arrives(ControlRequests)
    \/ Arrives(ToolingRequests)
    \/ Arrives(EvidenceRequests)
    \/ Arrives(CrossRequests)
    \/ Arrives(AnalysisRequests)
    \/ Arrives(MalformedRequests)
    \/ Arrives(ExpectationRequests)
    \/ Arrives(FaultyAnalysisRequests)
    \/ Arrives(ConfidenceRequests)
    \/ Arrives(AggregationRequests)

\* analyzeMetadata({case_id, intake_json, file_url}) on the request's file
AnalyzeMetadata ==
    /\ analysis = NotRun
    /\ extraction = NotRun
    /\ consistency = NotRun
    /\ signal_result = NotRun
    /\ analysis' = analyzeMetadata(intake_declarations, file)
    /\ temp_files' = temp_files + leftoverTemp(file)
    /\ UNCHANGED <<intake_declarations, file, technical_evidence, evidence_list,
                   extraction, consistency, detectors, signal_result, serverVars>>

\* extractEvidenceMetadata(file_url) on the request's file
ExtractEvidenceMetadata ==
    /\ analysis = NotRun
    /\ extraction = NotRun
    /\ consistency = NotRun
    /\ signal_result = NotRun
    /\ extraction' = extractEvidenceMetadata(file)
    /\ temp_files' = temp_files + leftoverTemp(file)
    /\ UNCHANGED <<intake_declarations, file, technical_evidence, evidence_list,
                   analysis, consistency, detectors, signal_result, serverVars>>

\* evaluateConsistency on the technical evidence of the request
EvaluateConsistency ==
    /\ analysis = NotRun
    /\ extraction = NotRun
    /\ consistency = NotRun
    /\ signal_result = NotRun
    /\ consistency' = evaluateConsistency(intake_declarations, technical_evidence,
                                          evidence_list)
    /\ UNCHANGED <<intake_declarations, file, technical_evidence, evidence_list,
                   analysis, extraction, detectors, signal_result, serverVars,
                   temp_files>>

\* evaluateConsistency fed with the flags the analysis returned
EvaluateAnalysed ==
    /\ analysis.status = "returned"
    /\ consistency = NotRun
    /\ technical_evidence' =
           [technical_evidence EXCEPT !.metadata_flags = analysis.metadata_flags]
    /\ consistency' = evaluateConsistency(intake_declarations, technical_evidence',
                                          evidence_list)
    /\ UNCHANGED <<intake_declarations, file, evidence_list, analysis, extraction,
                   detectors, signal_result, serverVars, temp_files>>

\* the aggregation and the confidence band of the request's detector outputs
AnalyzeSignals ==
    /\ analysis = NotRun
    /\ extraction = NotRun
    /\ consistency = NotRun
    /\ signal_result = NotRun
    /\ signal_result' = analyzeSignals(detectors, technical_evidence.extracted_metadata)
    /\ UNCHANGED <<intake_declarations, file, technical_evidence, evidence_list,
                   analysis, extraction, consistency, detectors, serverVars,
                   temp_files>>

Next ==
    \/ AnalyzeMetadata
    \/ ExtractEvidenceMetadata
    \/ EvaluateConsistency
    \/ EvaluateAnalysed
    \/ AnalyzeSignals

Spec == Init /\ [][Next]_vars

TypeOK ==
    /\ analysis.status \in {"not_run", "returned", "raised"}
    /\ extraction.status \in {"not_run", "returned", "raised"}
    /\ consistency.status \in {"not_run", "returned", "raised"}
    /\ signal_result.status \in {"not_run", "returned"}

(***************************************************************************)
(* What the claims read from a state                                       *)
(***************************************************************************)
Returned == consistency.status = "returned"
Raised == consistency.status = "raised"
Evaluated == consistency.status # "not_run"
Verdict(dim) == consistency.dimensions[dim]

DeclaredGit ==
    OptProp(OptProp(intake_declarations, "genesis_declaration"), "declared_git_level")
DeclaredControl == OptProp(intake_declarations, "declared_human_control")
DeclaredNoAi ==
    OptProp(OptProp(intake_declarations, "process_declaration"), "no_ai_in_final")
DeclaredGitIn(S) == DeclaredGit.k = "number" /\ DeclaredGit.v \in S

SignalConfidence == aiConfidence(technical_evidence)
SignalScore == aiScore(technical_evidence)

Supplied(name) == manifestFlag(evidence_list, name)

AnyVerdict(v) == \E dim \in DIMENSIONS : Verdict(dim) = v

(***************************************************************************)
(* C1: for every combination of the four dimension verdicts the global     *)
(* consistency_result is CONTRADICTORY iff some dimension is CONTRADICTORY, *)
(* otherwise WEAK iff some dimension is WEAK, otherwise CONSISTENT.        *)
(***************************************************************************)
C1_GlobalPrecedence ==
    Returned =>
        /\ consistency.consistency_result = CONTRADICTORY <=> AnyVerdict(CONTRADICTORY)
        /\ ~AnyVerdict(CONTRADICTORY) =>
              (consistency.consistency_result = WEAK <=> AnyVerdict(WEAK))
        /\ ~AnyVerdict(CONTRADICTORY) /\ ~AnyVerdict(WEAK) =>
              consistency.consistency_result = CONSISTENT

\* a WEAK dimension next to a CONTRADICTORY one: the result is CONTRADICTORY
C1_Witness ==
    /\ Returned
    /\ Verdict("PROCESS") = WEAK
    /\ Verdict("CONTROL") = CONSISTENT
    /\ Verdict("TOOLING") = CONTRADICTORY
    /\ Verdict("EVIDENCE_COMPLETENESS") = WEAK
    /\ consistency.consistency_result = CONTRADICTORY

(***************************************************************************)
(* C2: when the declaration expects no AI signals (declared GIT 0, 1 or 2, *)
(* or "no AI in final" set) and the signal result has confidence HIGH with *)
(* aggregated_score > 0.7, PROCESS and the global result are CONTRADICTORY *)
(* for every evidence manifest, also when source files or process evidence *)
(* are missing.                                                            *)
(***************************************************************************)
ExpectsNoAiSignals == DeclaredGitIn({0, 1, 2}) \/ Truthy(DeclaredNoAi)

C2_ProcessEscalation ==
    Returned /\ ExpectsNoAiSignals /\ SignalConfidence = "HIGH" /\ SignalScore > 70
        => /\ Verdict("PROCESS") = CONTRADICTORY
           /\ consistency.consistency_result = CONTRADICTORY

(***************************************************************************)
(* C3: with declared human control "high", CONTROL is CONTRADICTORY        *)
(* whenever signal confidence is HIGH and aggregated_score > 0.8, also     *)
(* when no iteration files, layered files or multiple versions were        *)
(* supplied.                                                               *)
(***************************************************************************)
C3_ControlEscalation ==
    Returned /\ StrEq(DeclaredControl, "high")
             /\ SignalConfidence = "HIGH" /\ SignalScore > 80
        => Verdict("CONTROL") = CONTRADICTORY

(***************************************************************************)
(* C4: evaluateConsistency never raises, whatever is missing or malformed  *)
(* in the declaration, the technical evidence or the manifest: every       *)
(* evaluation returns a result whose dimensions are verdicts.              *)
(***************************************************************************)
C4_NeverRaises ==
    Evaluated =>
        /\ Returned
        /\ \A dim \in DIMENSIONS : Verdict(dim) \in CONSISTENCY_LEVELS

(***************************************************************************)
(* C5: TOOLING is CONTRADICTORY if the flags contain UNDECLARED_SOFTWARE,  *)
(* else WEAK if they contain SOFTWARE_SIGNATURE_UNKNOWN, else it counts    *)
(* the detected software and model identifiers that match no declared tool *)
(* name (case-insensitive substring, either direction): CONTRADICTORY for  *)
(* two or more, WEAK for one, CONSISTENT for none.                         *)
(***************************************************************************)
\* the value is absent or a list of strings
StringListOrAbsent(x) ==
    \/ x.k = "undefined"
    \/ IsArray(x) /\ \A i \in 1..Len(x.v) : IsString(x.v[i])

ListOf(x) == IF IsArray(x) THEN x.v ELSE <<>>

DeclaredAiTools ==
    OptProp(OptProp(intake_declarations, "genesis_declaration"), "ai_tools_declared")
DeclaredSoftwareUsed ==
    OptProp(OptProp(intake_declarations, "process_declaration"), "software_used")

\* every declared tool is an object whose engine and label are strings or absent
WellFormedTools ==
    /\ \/ DeclaredAiTools.k = "undefined"
       \/ /\ IsArray(DeclaredAiTools)
          /\ \A i \in 1..Len(DeclaredAiTools.v) :
                /\ DeclaredAiTools.v[i].k = "object"
                /\ \A name \in {"engine", "custom_label"} :
                      Prop(DeclaredAiTools.v[i], name).k \in {"undefined", "string"}
    /\ StringListOrAbsent(DeclaredSoftwareUsed)

\* the declared tool names: engines, custom labels and software used
DeclaredNames ==
    {Prop(ListOf(DeclaredAiTools)[i], name).v :
        i \in {j \in 1..Len(ListOf(DeclaredAiTools)) :
                 Prop(ListOf(DeclaredAiTools)[j], "engine").k = "string"},
        name \in {"engine"}}
    \cup {Prop(ListOf(DeclaredAiTools)[i], name).v :
        i \in {j \in 1..Len(ListOf(DeclaredAiTools)) :
                 Prop(ListOf(DeclaredAiTools)[j], "custom_label").k = "string"},
        name \in {"custom_label"}}
    \cup {ListOf(DeclaredSoftwareUsed)[i].v : i \in 1..Len(ListOf(DeclaredSoftwareUsed))}

\* the identifier matches a declared name, ignoring case, in either direction
IsDeclaredName(id) ==
    \E name \in DeclaredNames :
        \/ includes(toLowerCase(id), toLowerCase(name))
        \/ includes(toLowerCase(name), toLowerCase(id))

DetectedSoftware == OptProp(technical_evidence.extracted_metadata, "software")
DetectedModels ==
    OptProp(OptProp(technical_evidence.ai_signals, "fingerprint"), "model")

UndeclaredIn(x) ==
    Cardinality({i \in 1..Len(ListOf(x)) : ~IsDeclaredName(ListOf(x)[i].v)})

MetadataFlags == Range(technical_evidence.metadata_flags)

ToolingRule(undeclared) ==
    IF UNDECLARED_SOFTWARE \in MetadataFlags THEN CONTRADICTORY
    ELSE IF SOFTWARE_SIGNATURE_UNKNOWN \in MetadataFlags THEN WEAK
    ELSE IF undeclared >= 2 THEN CONTRADICTORY
    ELSE IF undeclared = 1 THEN WEAK
    ELSE CONSISTENT

WellFormedTooling ==
    /\ WellFormedTools
    /\ StringListOrAbsent(DetectedSoftware)
    /\ StringListOrAbsent(DetectedModels)

C5_ToolingRule ==
    Evaluated /\ WellFormedTooling =>
        Verdict("TOOLING") =
            ToolingRule(UndeclaredIn(DetectedSoftware) + UndeclaredIn(DetectedModels))

(***************************************************************************)
(* C6: with the declared tool "Midjourney", no software flag and the       *)
(* extracted software field the string "midjourney-v6-export", the         *)
(* evaluation completes and TOOLING is CONSISTENT.                         *)
(***************************************************************************)
C6_ScenarioC ==
    /\ Evaluated
    /\ "Midjourney" \in DeclaredNames
    /\ MetadataFlags \cap {UNDECLARED_SOFTWARE, SOFTWARE_SIGNATURE_UNKNOWN} = {}
    /\ StrEq(DetectedSoftware, "midjourney-v6-export")
    => Returned /\ Verdict("TOOLING") = CONSISTENT

(***************************************************************************)
(* C7: EVIDENCE_COMPLETENESS is CONSISTENT when the declaration promises   *)
(* no evidence items; otherwise a promised item is supplied when the type  *)
(* or the name of some manifest item is a substring of it (ignoring case), *)
(* and the dimension is CONTRADICTORY iff every promised item is missing,  *)
(* WEAK iff some but not all are missing, CONSISTENT iff none is missing.  *)
(***************************************************************************)
PromisedEvidence ==
    OptProp(OptProp(intake_declarations, "process_declaration"), "evidence_promised")
ManifestFiles == OptProp(evidence_list, "files")

\* the promised items are strings, the manifest items are objects whose type
\* and name are strings or absent
WellFormedEvidence ==
    /\ StringListOrAbsent(PromisedEvidence)
    /\ \/ ManifestFiles.k = "undefined"
       \/ /\ IsArray(ManifestFiles)
          /\ \A j \in 1..Len(ManifestFiles.v) :
                /\ ManifestFiles.v[j].k = "object"
                /\ \A name \in {"type", "name"} :
                      Prop(ManifestFiles.v[j], name).k \in {"undefined", "string"}

\* the manifest item carries this field and it is a substring of the promise
SuppliedBy(promised, item, field) ==
    /\ Prop(item, field).k = "string"
    /\ Prop(item, field).v # ""
    /\ includes(toLowerCase(promised), toLowerCase(Prop(item, field).v))

MissingItems ==
    {i \in 1..Len(ListOf(PromisedEvidence)) :
        ~\E j \in 1..Len(ListOf(ManifestFiles)) :
            \/ SuppliedBy(ListOf(PromisedEvidence)[i].v, ListOf(ManifestFiles)[j], "type")
            \/ SuppliedBy(ListOf(PromisedEvidence)[i].v, ListOf(ManifestFiles)[j], "name")}

PromisedCount == Len(ListOf(PromisedEvidence))

C7_EvidenceRule ==
    Returned /\ WellFormedEvidence =>
        IF PromisedCount = 0 THEN Verdict("EVIDENCE_COMPLETENESS") = CONSISTENT
        ELSE /\ Verdict("EVIDENCE_COMPLETENESS") = CONTRADICTORY
                    <=> Cardinality(MissingItems) = PromisedCount
             /\ Verdict("EVIDENCE_COMPLETENESS") = WEAK
                    <=> Cardinality(MissingItems) \in 1..(PromisedCount - 1)
             /\ Verdict("EVIDENCE_COMPLETENESS") = CONSISTENT
                    <=> MissingItems = {}

\* Scenario D: "sketch" and "layered_psd" promised, only {type: "sketch"} supplied
C7_Witness ==
    /\ Returned
    /\ PromisedEvidence = List(<<Str("sketch"), Str("layered_psd")>>)
    /\ ManifestFiles = List(<<EvidenceItem(Str("sketch"), Undefined)>>)
    /\ Cardinality(MissingItems) = 1
    /\ Verdict("EVIDENCE_COMPLETENESS") = WEAK

(***************************************************************************)
(* C8: for a declaration with declared GIT 0 or 1, no source files and no  *)
(* process evidence supplied and no file submitted, the analysis returns   *)
(* metadata_flags = [METADATA_MISSING], and the evaluation on those flags  *)
(* gives PROCESS = WEAK and the global consistency_result WEAK.            *)
(***************************************************************************)
NoFileSubmitted == ~Truthy(file.file_url)

ScenarioA ==
    /\ DeclaredGitIn({0, 1})
    /\ ~Supplied("has_source_files")
    /\ ~Supplied("has_process_evidence")
    /\ NoFileSubmitted

Analysed == analysis # NotRun
\* the evaluation ran on the flags the analysis returned
EvaluatedOnAnalysis ==
    /\ Analysed
    /\ Evaluated
    /\ technical_evidence.metadata_flags = analysis.metadata_flags

UndeclaredSoftwareDetected ==
    \/ MetadataFlags \cap {UNDECLARED_SOFTWARE, SOFTWARE_SIGNATURE_UNKNOWN} # {}
    \/ UndeclaredIn(DetectedSoftware) >= 1

MixedSignals ==
    /\ DeclaredGitIn({2})
    /\ ~Supplied("has_source_files")
    /\ WellFormedTooling
    /\ UndeclaredSoftwareDetected

C9_FlaggedWitness ==
    /\ Returned
    /\ MixedSignals
    /\ EvaluatedOnAnalysis
    /\ UNDECLARED_SOFTWARE \in Range(analysis.metadata_flags)
    /\ consistency.consistency_result = CONTRADICTORY

(***************************************************************************)
(* C10: for every declared GIT level in 0..5, every value of the 'no AI in *)
(* final' flag and every control level the expectations are                *)
(* expects_no_ai_signals = (GIT in {0,1,2} or the flag is set),            *)
(* expects_ai_signals = (GIT in {3,4,5}), expects_source_files = (GIT <=   *)
(* 1), expects_process_evidence = (GIT = 0), expects_high_control_evidence *)
(* = (control is 'high'); being functions of the declaration alone, they   *)
(* are the same under any technical evidence and any manifest.             *)
(***************************************************************************)
ExpectationsFromGit ==
    /\ consistency.expectations.expects_no_ai_signals
          = (DeclaredGit.v \in {0, 1, 2} \/ Truthy(DeclaredNoAi))
    /\ consistency.expectations.expects_ai_signals = (DeclaredGit.v \in {3, 4, 5})
    /\ consistency.expectations.expects_source_files = (DeclaredGit.v <= 1)
    /\ consistency.expectations.expects_process_evidence = (DeclaredGit.v = 0)

C10_Expectations ==
    Evaluated /\ DeclaredGitIn(0..5) =>
        /\ ExpectationsFromGit
        /\ consistency.expectations.expects_high_control_evidence
              = StrEq(DeclaredControl, "high")

(***************************************************************************)
(* C10, amended: the same, except that expects_high_control_evidence =     *)
(* (control is 'high' or 'alto').                                          *)
(***************************************************************************)
C10_Expectations_Amended ==
    Evaluated /\ DeclaredGitIn(0..5) =>
        /\ ExpectationsFromGit
        /\ consistency.expectations.expects_high_control_evidence
              = (StrEq(DeclaredControl, "high") \/ StrEq(DeclaredControl, "alto"))

\* GIT 1 with control 'alto' and the flag set, evaluated under strong AI signals
C10_Witness ==
    /\ Evaluated
    /\ DeclaredGitIn({1})
    /\ StrEq(DeclaredControl, "alto")
    /\ Truthy(DeclaredNoAi)
    /\ SignalConfidence = "HIGH"
    /\ consistency.expectations.expects_high_control_evidence
    /\ consistency.expectations.expects_source_files
    /\ ~consistency.expectations.expects_process_evidence

(***************************************************************************)
(* C11: for a declaration with declared GIT 3, 4 or 5 and no 'no AI in     *)
(* final' flag, PROCESS is WEAK exactly when the signal confidence is LOW  *)
(* and the aggregated score is below 0.3 (an absent signal result counts   *)
(* as LOW with score 0), and CONSISTENT otherwise, whatever the manifest.  *)
(***************************************************************************)
C11_AiExpected ==
    Evaluated /\ DeclaredGitIn({3, 4, 5}) /\ ~Truthy(DeclaredNoAi) =>
        Verdict("PROCESS") =
            IF SignalConfidence = "LOW" /\ SignalScore < 30 THEN WEAK
            ELSE CONSISTENT

\* GIT 4 with strong AI signals and nothing supplied: CONSISTENT
C11_Witness ==
    /\ Evaluated
    /\ DeclaredGitIn({4})
    /\ ~Truthy(DeclaredNoAi)
    /\ SignalConfidence = "HIGH"
    /\ SignalScore = 85
    /\ ~Supplied("has_source_files")
    /\ Verdict("PROCESS") = CONSISTENT

\* GIT 3 without any signal result: WEAK
C11_NoSignalWitness ==
    /\ Evaluated
    /\ DeclaredGitIn({3})
    /\ ~Truthy(DeclaredNoAi)
    /\ technical_evidence.ai_signals = Null
    /\ Verdict("PROCESS") = WEAK

(***************************************************************************)
(* C12: in every result of evaluateConsistency, affected_dimensions is     *)
(* exactly the set of dimensions whose verdict is not CONSISTENT; hence    *)
(* consistency_result is CONSISTENT iff affected_dimensions is empty.      *)
(***************************************************************************)
C12_AffectedDimensions ==
    Returned =>
        /\ consistency.affected_dimensions
              = {dim \in DIMENSIONS : Verdict(dim) # CONSISTENT}
        /\ (consistency.consistency_result = CONSISTENT)
              <=> (consistency.affected_dimensions = {})

\* a result with one WEAK and one CONTRADICTORY dimension
C12_Witness ==
    /\ Returned
    /\ Verdict("PROCESS") = WEAK
    /\ Verdict("TOOLING") = CONTRADICTORY
    /\ Verdict("CONTROL") = CONSISTENT
    /\ Verdict("EVIDENCE_COMPLETENESS") = CONSISTENT
    /\ consistency.affected_dimensions = {"PROCESS", "TOOLING"}

\* a result with no affected dimension
C12_EmptyWitness ==
    /\ Returned
    /\ consistency.affected_dimensions = {}
    /\ consistency.consistency_result = CONSISTENT

(***************************************************************************)
(* C13: whenever analyzeMetadata is called with no file reference, or the  *)
(* fetch fails, or the container type cannot be identified, or an          *)
(* exception occurs while reading or checking the file, the returned       *)
(* metadata_flags is exactly [METADATA_MISSING].                           *)
(***************************************************************************)
FetchFailed == Truthy(file.file_url) /\ file.download = "error"
ReadFailed ==
    /\ Truthy(file.file_url)
    /\ file.download = "ok"
    /\ (file.readFile = "error" \/ (Truthy(file.fileType) /\ file.reader = "error"))
TypeUnidentified ==
    /\ Truthy(file.file_url)
    /\ file.download = "ok"
    /\ file.readFile = "ok"
    /\ ~Truthy(file.fileType)
CheckFailed == checksThrow(intake_declarations, file)

C13_OnlyMissing ==
    Analysed
    /\ (NoFileSubmitted \/ FetchFailed \/ ReadFailed \/ TypeUnidentified \/ CheckFailed)
    => analysis.metadata_flags = <<METADATA_MISSING>>

(***************************************************************************)
(* C14: neither extractEvidenceMetadata nor analyzeMetadata ever raises to *)
(* its caller: for every outcome of fetch, type sniffing, reading,         *)
(* normalisation, checking and temp-file cleanup the call returns a        *)
(* well-formed record (a metadata record, possibly empty, or a flag list). *)
(***************************************************************************)
TECHNICAL_FLAGS ==
    {METADATA_MISSING, UNDECLARED_SOFTWARE, TIMELINE_INCONSISTENCY,
     FORMAT_VERSION_MISMATCH, SOFTWARE_SIGNATURE_UNKNOWN}

Extracted == extraction # NotRun

C14_NeverRaises ==
    /\ Analysed =>
          /\ analysis.status = "returned"
          /\ Range(analysis.metadata_flags) \subseteq TECHNICAL_FLAGS
          /\ analysis.analysis_version = ANALYSIS_VERSION
    /\ Extracted =>
          /\ extraction.status = "returned"
          /\ extraction.metadata.k = "object"
          /\ extraction.extraction_version = EXTRACTION_VERSION

\* the temporary copy could not be deleted, and the extraction still returned
C14_Witness ==
    /\ Extracted
    /\ tempFilePath(file)
    /\ file.unlink = "error"
    /\ extraction.status = "returned"

\* a check threw and the temporary copy could not be deleted: the analysis returned
C14_AnalysisWitness ==
    /\ Analysed
    /\ tempFilePath(file)
    /\ file.unlink = "error"
    /\ analysis.status = "returned"

(***************************************************************************)
(* C15: in extractEvidenceMetadata any exception during fetch, type        *)
(* sniffing or the type-specific read yields a result whose metadata       *)
(* record has no keys and which carries extraction_error; a result without *)
(* extraction_error is only returned when the read succeeded.              *)
(***************************************************************************)
FetchThrew == ~tempFilePath(file)
SniffThrew == tempFilePath(file) /\ file.readFile = "error"
ReaderThrew ==
    /\ tempFilePath(file)
    /\ file.readFile = "ok"
    /\ Truthy(file.fileType)
    /\ file.reader = "error"
ReadSucceeded ==
    /\ tempFilePath(file)
    /\ file.readFile = "ok"
    /\ Truthy(file.fileType)
    /\ file.reader = "ok"

C15_FailureMarker ==
    Extracted =>
        /\ (FetchThrew \/ SniffThrew \/ ReaderThrew) =>
              /\ keyCount(extraction.metadata) = 0
              /\ Truthy(extraction.extraction_error)
        /\ ~Truthy(extraction.extraction_error) => ReadSucceeded

(***************************************************************************)
(* C16: the timeline check emits TIMELINE_INCONSISTENCY iff the            *)
(* declaration has an execution year, at least one date field is present,  *)
(* the first present field in the priority order (DateTimeOriginal,        *)
(* CreateDate, ModifyDate, DateCreated, CreationDate) parses to a date and *)
(* that date's year differs from the declared year; an unparseable date    *)
(* never produces the flag.                                                *)
(***************************************************************************)
\* the file was fetched, read and identified, and its metadata has keys
ChecksReached ==
    /\ ReadSucceeded
    /\ keyCount(file.tags) > 0

DeclaredYear ==
    OptProp(OptProp(intake_declarations, "artist_declaration"), "execution_year")

DateField(name) == Prop(file.tags, name)

\* the first present date field in the priority order, or undefined
FirstDateField ==
    IF Truthy(DateField("DateTimeOriginal")) THEN DateField("DateTimeOriginal")
    ELSE IF Truthy(DateField("CreateDate")) THEN DateField("CreateDate")
    ELSE IF Truthy(DateField("ModifyDate")) THEN DateField("ModifyDate")
    ELSE IF Truthy(DateField("DateCreated")) THEN DateField("DateCreated")
    ELSE IF Truthy(DateField("CreationDate")) THEN DateField("CreationDate")
    ELSE Undefined

C16_TimelineFlag ==
    Analysed /\ ChecksReached =>
        (TIMELINE_INCONSISTENCY \in Range(analysis.metadata_flags))
            <=> /\ DeclaredYear.k = "number"
                /\ FirstDateField.k = "date"
                /\ FirstDateField.v # DeclaredYear.v

(***************************************************************************)
(* C17: the software-signature check emits nothing when no                 *)
(* software-identity field (Software, CreatorTool, Application,            *)
(* ProcessingSoftware) is present; SOFTWARE_SIGNATURE_UNKNOWN iff a        *)
(* signature is present and the declaration lists no tool or software;     *)
(* UNDECLARED_SOFTWARE iff the declaration lists tools and some signature  *)
(* matches no declared tool (case-insensitive substring, either            *)
(* direction); the two flags are never both emitted in one analysis.       *)
(***************************************************************************)
SoftwareFields == {"Software", "CreatorTool", "Application", "ProcessingSoftware"}

\* the software signatures present in the metadata of the file
Signatures ==
    {Prop(file.tags, name).v :
        name \in {n \in SoftwareFields : Truthy(Prop(file.tags, n))}}

AnalysisFlags == Range(analysis.metadata_flags)

C17_SoftwareSignatures ==
    Analysed /\ ChecksReached /\ WellFormedTools =>
        /\ Signatures = {} =>
              AnalysisFlags \cap {SOFTWARE_SIGNATURE_UNKNOWN, UNDECLARED_SOFTWARE} = {}
        /\ SOFTWARE_SIGNATURE_UNKNOWN \in AnalysisFlags
              <=> (Signatures # {} /\ DeclaredNames = {})
        /\ UNDECLARED_SOFTWARE \in AnalysisFlags
              <=> (DeclaredNames # {} /\ \E s \in Signatures : ~IsDeclaredName(s))
        /\ ~({SOFTWARE_SIGNATURE_UNKNOWN, UNDECLARED_SOFTWARE} \subseteq AnalysisFlags)

\* "GIMP" detected under a declaration that lists only Midjourney
C17_Witness ==
    /\ Analysed
    /\ ChecksReached
    /\ DeclaredNames = {"Midjourney"}
    /\ "GIMP" \in Signatures
    /\ UNDECLARED_SOFTWARE \in AnalysisFlags

\* "PHOTO" detected under a declaration that lists Photoshop: declared
C17_ContainedWitness ==
    /\ Analysed
    /\ ChecksReached
    /\ DeclaredNames = {"Photoshop"}
    /\ Signatures = {"PHOTO"}
    /\ UNDECLARED_SOFTWARE \notin AnalysisFlags

\* a signature detected under a declaration that lists nothing
C17_UnknownWitness ==
    /\ Analysed
    /\ ChecksReached
    /\ DeclaredNames = {}
    /\ Signatures # {}
    /\ SOFTWARE_SIGNATURE_UNKNOWN \in AnalysisFlags

(***************************************************************************)
(* C18: for a declaration lacking a file_format, analyzeMetadata never     *)
(* emits FORMAT_VERSION_MISMATCH, whatever file type is detected; when the *)
(* format check runs with both a declared format and a detected file type, *)
(* the flag is emitted iff neither lower-cased string contains the other.  *)
(***************************************************************************)
DeclaredFormat ==
    OptProp(OptProp(intake_declarations, "artist_declaration"), "file_format")
DetectedFileType == Prop(file.tags, "FileType")

\* neither lower-cased string contains the other
FormatsDiffer ==
    /\ ~includes(toLowerCase(DetectedFileType.v), toLowerCase(DeclaredFormat.v))
    /\ ~includes(toLowerCase(DeclaredFormat.v), toLowerCase(DetectedFileType.v))

C18_FormatFlag ==
    Analysed =>
        /\ ~Truthy(DeclaredFormat) => FORMAT_VERSION_MISMATCH \notin AnalysisFlags
        /\ /\ ChecksReached
           /\ ~CheckFailed
           /\ IsString(DeclaredFormat) /\ DeclaredFormat.v # ""
           /\ IsString(DetectedFileType) /\ DetectedFileType.v # ""
           => (FORMAT_VERSION_MISMATCH \in AnalysisFlags <=> FormatsDiffer)

\* no declared format, a detected type: no flag
C18_Witness ==
    /\ Analysed
    /\ ChecksReached
    /\ DeclaredFormat = Undefined
    /\ DetectedFileType = Str("JPEG")
    /\ FORMAT_VERSION_MISMATCH \notin AnalysisFlags

\* "png" declared, "JPEG" detected: flagged
C18_MismatchWitness ==
    /\ Analysed
    /\ DeclaredFormat = Str("png")
    /\ DetectedFileType = Str("JPEG")
    /\ FORMAT_VERSION_MISMATCH \in AnalysisFlags

\* "png-24" declared, "PNG" detected: the declared format contains the type
C18_ContainedWitness ==
    /\ Analysed
    /\ ChecksReached
    /\ DeclaredFormat = Str("png-24")
    /\ DetectedFileType = Str("PNG")
    /\ FORMAT_VERSION_MISMATCH \notin AnalysisFlags


(***************************************************************************)
(* C19: the confidence band                                                *)
(***************************************************************************)
SignalsAnalysed == signal_result.status = "returned"

\* the detectors that report a score
ScoresPresent ==
    {i \in 1..Len(detectors) :
        detectors[i].k = "object" /\ detectors[i].v.score.k = "number"}

\* the detectors whose reliability is above 0.7
ReliableDetectors ==
    {i \in 1..Len(detectors) :
        /\ detectors[i].k = "object"
        /\ detectors[i].v.reliability.k = "number"
        /\ detectors[i].v.reliability.v > 70}

\* the sum of the p-th powers of the scores of the detectors in present
RECURSIVE PowerSum(_, _)
PowerSum(present, p) ==
    IF present = {} THEN 0
    ELSE LET i == CHOOSE j \in present : TRUE
             score == detectors[i].v.score.v
         IN  (IF p = 2 THEN score * score ELSE score)
             + PowerSum(present \ {i}, p)

\* population variance < 0.05, as mean of squares minus square of the mean,
\* both sides multiplied by n^2
VarianceBelowThreshold ==
    LET n == Cardinality(ScoresPresent)
    IN  n * PowerSum(ScoresPresent, 2)
        - PowerSum(ScoresPresent, 1) * PowerSum(ScoresPresent, 1) < 500 * n * n

\* the populated fields of the stored metadata record
PopulatedFields ==
    {name \in DOMAIN technical_evidence.extracted_metadata.v :
        technical_evidence.extracted_metadata.v[name].k # "undefined"}

MetadataIntegrity == Cardinality(PopulatedFields) > 5

ConfidenceBand ==
    IF ScoresPresent = {} THEN "LOW"
    ELSE IF /\ Cardinality(ScoresPresent) >= 4
            /\ VarianceBelowThreshold
            /\ Cardinality(ReliableDetectors) >= 3
            /\ MetadataIntegrity
    THEN "HIGH"
    ELSE IF Cardinality(ScoresPresent) >= 3 /\ MetadataIntegrity THEN "MEDIUM"
    ELSE "LOW"

\* C19: calculateConfidence is LOW when no score is present; HIGH iff at
\* least 4 scores are present, their population variance is below 0.05, at
\* least 3 detectors have a reliability above 0.7 and the metadata record has
\* more than 5 populated fields; otherwise MEDIUM iff at least 3 scores are
\* present and the record has more than 5 populated fields; otherwise LOW.
C19_ConfidenceBand ==
    SignalsAnalysed => signal_result.confidence = ConfidenceBand

\* a HIGH band: four scores of low variance, three reliable detectors, six fields
C19_Witness ==
    /\ SignalsAnalysed
    /\ signal_result.confidence = "HIGH"
    /\ Cardinality(ScoresPresent) = 4
    /\ Cardinality(ReliableDetectors) = 3
    /\ Cardinality(PopulatedFields) = 6

\* HIGH is missed by the variance alone
C19_VarianceWitness ==
    /\ SignalsAnalysed
    /\ signal_result.confidence = "MEDIUM"
    /\ Cardinality(ScoresPresent) >= 4
    /\ Cardinality(ReliableDetectors) >= 3
    /\ ~VarianceBelowThreshold

\* HIGH is missed by the reliabilities alone, one of them being exactly 0.7
C19_ReliabilityWitness ==
    /\ SignalsAnalysed
    /\ signal_result.confidence = "MEDIUM"
    /\ Cardinality(ScoresPresent) >= 4
    /\ VarianceBelowThreshold
    /\ Cardinality(ReliableDetectors) = 2

\* five populated fields are not enough for MEDIUM
C19_IntegrityWitness ==
    /\ SignalsAnalysed
    /\ signal_result.confidence = "LOW"
    /\ Cardinality(ScoresPresent) >= 4
    /\ Cardinality(PopulatedFields) = 5

\* only detectors without a score
C19_NoScoreWitness ==
    /\ SignalsAnalysed
    /\ signal_result.confidence = "LOW"
    /\ ScoresPresent = {}
    /\ Cardinality(ReliableDetectors) >= 3
    /\ MetadataIntegrity


(***************************************************************************)
(* C20: the weighted aggregation                                           *)
(***************************************************************************)
\* the entries whose score and reliability are both numbers
Counted ==
    {i \in 1..Len(detectors) :
        /\ detectors[i].k = "object"
        /\ detectors[i].v.score.k = "number"
        /\ detectors[i].v.reliability.k = "number"}

\* the sum of reliability (weighted = FALSE) or of score * reliability
\* (weighted = TRUE) over the entries in counted
RECURSIVE ReliabilitySum(_, _)
ReliabilitySum(counted, weighted) ==
    IF counted = {} THEN 0
    ELSE LET i == CHOOSE j \in counted : TRUE
             reliability == detectors[i].v.reliability.v
         IN  (IF weighted THEN detectors[i].v.score.v * reliability ELSE reliability)
             + ReliabilitySum(counted \ {i}, weighted)

\* every counted score lies in [0,1] and no counted reliability is negative
InUnitRange ==
    \A i \in Counted :
        /\ detectors[i].v.score.v \in 0..100
        /\ detectors[i].v.reliability.v >= 0

\* C20: calculateWeightedAggregation returns the sum of score * reliability
\* divided by the sum of reliability, both over exactly the entries whose score
\* and reliability are numbers, and 0 when the sum of reliabilities is 0; with
\* counted scores in [0,1] and non-negative reliabilities the result is in
\* [0,1].
C20_WeightedAggregation ==
    SignalsAnalysed =>
        LET result == signal_result.aggregated_score
            total == ReliabilitySum(Counted, FALSE)
        IN  /\ result.den > 0
            /\ total = 0 => result.num = 0
            /\ total # 0 =>
                   result.num * total = ReliabilitySum(Counted, TRUE) * result.den
            /\ InUnitRange => /\ 0 <= result.num
                              /\ result.num <= 100 * result.den

\* scores 0 and 1 under reliabilities 0.5 and 1, next to an entry that is not
\* counted: the result is 2/3, not the plain mean
C20_Witness ==
    /\ SignalsAnalysed
    /\ Cardinality(Counted) = 2
    /\ Len(detectors) = 3
    /\ ReliabilitySum(Counted, FALSE) = 150
    /\ ReliabilitySum(Counted, TRUE) = 10000
    /\ signal_result.aggregated_score.num * 3 = 200 * signal_result.aggregated_score.den

\* entries are counted and their reliabilities sum to 0
C20_ZeroWitness ==
    /\ SignalsAnalysed
    /\ Cardinality(Counted) >= 2
    /\ ReliabilitySum(Counted, FALSE) = 0
    /\ signal_result.aggregated_score.num = 0
    /\ \E i \in Counted : detectors[i].v.score.v = 100

\* an entry with a score but no reliability, and one with a reliability but no
\* score, are left out
C20_LeftOutWitness ==
    /\ SignalsAnalysed
    /\ Cardinality(Counted) = 1
    /\ \E i \in 1..Len(detectors) :
           i \notin Counted /\ detectors[i].k = "object"
           /\ detectors[i].v.score.k = "number" /\ detectors[i].v.score.v = 0
    /\ \E i \in 1..Len(detectors) :
           i \notin Counted /\ detectors[i].k = "object"
           /\ detectors[i].v.reliability.k = "number"
    /\ signal_result.aggregated_score.num = 100 * signal_result.aggregated_score.den


(***************************************************************************)
(* C21: more scores never lower the band                                   *)
(***************************************************************************)
BandRank(band) == CASE band = "LOW" -> 0 [] band = "MEDIUM" -> 1 [] band = "HIGH" -> 2

\* every detector of the list has a reliability of at least 0.7 and the
\* variance of the scores present is below 0.05
SteadyPanel(signals) ==
    /\ \A i \in 1..Len(signals) :
           /\ signals[i].k = "object"
           /\ signals[i].v.reliability.k = "number"
           /\ signals[i].v.reliability.v >= 70
    /\ numericScores(signals) # <<>> => lowVariance(numericScores(signals))

\* the panels that report one score more than the analysed one
OneScoreMore ==
    {detectors \o <<s>> : s \in {e \in ConfidenceSignals :
                                    e.k = "object" /\ e.v.score.k = "number"}}

\* C21: with the same metadata, the variance below 0.05 and every reliability
\* at least 0.7, a panel with one score more (3 instead of 2, 4 instead of 3)
\* never gets a lower band than the analysed panel, LOW < MEDIUM < HIGH.
C21_Monotone ==
    (/\ SignalsAnalysed
     /\ SteadyPanel(detectors)
     /\ Cardinality(ScoresPresent) \in {2, 3})
    => \A more \in OneScoreMore :
           SteadyPanel(more) =>
               BandRank(calculateConfidence(more, MetadataIntegrity))
                   >= BandRank(signal_result.confidence)

\* three scores give MEDIUM and a fourth one lifts the band to HIGH
C21_Witness ==
    /\ SignalsAnalysed
    /\ SteadyPanel(detectors)
    /\ Cardinality(ScoresPresent) = 3
    /\ signal_result.confidence = "MEDIUM"
    /\ \E more \in OneScoreMore :
           SteadyPanel(more) /\ calculateConfidence(more, MetadataIntegrity) = "HIGH"

\* three scores under reliabilities of exactly 0.7: a fourth keeps MEDIUM
C21_KeptWitness ==
    /\ SignalsAnalysed
    /\ SteadyPanel(detectors)
    /\ Cardinality(ScoresPresent) = 3
    /\ Cardinality(ReliableDetectors) = 0
    /\ signal_result.confidence = "MEDIUM"
    /\ \E more \in OneScoreMore :
           SteadyPanel(more) /\ calculateConfidence(more, MetadataIntegrity) = "MEDIUM"

\* two scores give LOW and a third one lifts the band to MEDIUM
C21_LiftedWitness ==
    /\ SignalsAnalysed
    /\ SteadyPanel(detectors)
    /\ Cardinality(ScoresPresent) = 2
    /\ signal_result.confidence = "LOW"
    /\ \E more \in OneScoreMore :
           SteadyPanel(more) /\ calculateConfidence(more, MetadataIntegrity) = "MEDIUM"


(***************************************************************************)
(* C24: temporary files                                                    *)
(***************************************************************************)
\* C24: after any sequence of calls of analyzeMetadata or
\* extractEvidenceMetadata, on every exit path, no temporary file created by
\* a call remains once the call has returned: the number of leftover
\* temporary files stays 0.
C24_NoLeftover == temp_files = 0


(***************************************************************************)
(* server.js: the endpoints over the external store                        *)
(* A table is the sequence of its rows in the order of insertion; a select *)
(* ordered by time descending with limit 1 reads the last matching row.    *)
(***************************************************************************)
MaxCalls == 3   \* endpoint calls of one behaviour

\* the result of an insert, as the store reports it
Outcomes == {"ok", "error"}

\* variant: the accepted row replaces the rows of the table
insert_replacing(table, row, outcome) == IF outcome = "ok" THEN <<row>> ELSE table

\* supabase.from(table).insert(row): the row is appended when the store accepts it
insert(table, row, outcome) == IF outcome = "ok" THEN Append(table, row) ELSE table

\* calculateSHA256Deterministic(obj): the digest of the canonical serialisation;
\* equal objects, whatever the order of their keys, have equal digests
calculateSHA256Deterministic(obj) == Str(ToString(obj))

\* generateCaseId(): the n-th identifier drawn
generateCaseId(n) == Str("AURA-2025-01-" \o ToString(n))

\* validateProtocolMetadata(intake) returns (TRUE) or throws (FALSE)
validateProtocolMetadata(intake) ==
    LET aura_protocol == OptProp(intake, "aura_protocol")
    IN  /\ Truthy(aura_protocol)
        /\ Truthy(Prop(aura_protocol, "phase"))
        /\ Truthy(Prop(aura_protocol, "version"))
        /\ Truthy(Prop(aura_protocol, "generated_at"))
        /\ StrEq(Prop(aura_protocol, "version"), "1.0.0")

\* a ?? b
Coalesce(a, b) == IF IsNullish(a) THEN b ELSE a

\* the unique index of intake_frozen rejects a declaration frozen before
\* (error code 23505)
isDuplicate(s, server_hash) ==
    \E i \in 1..Len(s.intake_frozen) : s.intake_frozen[i].server_hash = server_hash

Respond(endpoint, status, body) ==
    [endpoint |-> endpoint, status |-> status, body |-> body, evaluated |-> Undefined]

\* POST /intake-freeze: the store and the response after the handler
intakeFreeze(s, intake_data, client_hash, frozenInsert, caseInsert, logInsert) ==
    LET server_hash == calculateSHA256Deterministic(intake_data)
        frozen == [id |-> Len(s.intake_frozen) + 1,
                   aura_intake_json |-> intake_data,
                   client_hash |-> client_hash,
                   server_hash |-> server_hash,
                   hash_match |-> (client_hash = server_hash)]
        case_id == generateCaseId(Len(s.audit_cases) + 1)
        auditCase == [case_id |-> case_id,
                      intake_frozen_id |-> frozen.id,
                      original_git |->
                          Coalesce(OptProp(Prop(intake_data, "genesis_declaration"),
                                           "declared_git_level"), Num(0)),
                      original_cg |->
                          Coalesce(OptProp(Prop(intake_data, "forensic_pre_evaluation"),
                                           "pre_confidence_grade"), Str("CG-?")),
                      intake_hash |-> server_hash,
                      status |-> "draft"]
        log == [case_id |-> case_id, action |-> "intake_frozen",
                details |-> [intake_frozen_id |-> frozen.id,
                             hash_match |-> frozen.hash_match]]
        s1 == [s EXCEPT !.intake_frozen = insert(@, frozen, "ok")]
        s2 == [s1 EXCEPT !.audit_cases = insert(@, auditCase, "ok")]
        s3 == [s2 EXCEPT !.audit_logs = insert(@, log, "ok")]
        failed == Respond("intake-freeze", 500, [error |-> "ERROR_INTERNO_SISTEMA"])
    IN  IF ~Truthy(intake_data) \/ ~Truthy(client_hash)
        THEN [store |-> s,
              response |-> Respond("intake-freeze", 400, [error |-> "DATOS_INCOMPLETOS"])]
        ELSE IF ~validateProtocolMetadata(intake_data)
        THEN [store |-> s, response |-> failed]
        ELSE IF isDuplicate(s, server_hash)
        THEN [store |-> s,
              response |-> Respond("intake-freeze", 409,
                                   [error |-> "DECLARACION_DUPLICADA"])]
        ELSE IF frozenInsert = "error" THEN [store |-> s, response |-> failed]
        ELSE IF caseInsert = "error" THEN [store |-> s1, response |-> failed]
        ELSE IF logInsert = "error" THEN [store |-> s2, response |-> failed]
        ELSE [store |-> s3,
              response |-> Respond("intake-freeze", 201,
                                   [success |-> TRUE, case_id |-> case_id])]

\* the body of an intake request
IntakeData(git, ai_tools, software_used, version, grade) ==
    Obj([aura_protocol |->
             Obj([phase |-> Str("INTAKE"), version |-> version,
                  generated_at |-> Str("2025-01-01T00:00:00Z")]),
         genesis_declaration |->
             Obj([declared_git_level |-> git, ai_tools_declared |-> ai_tools]),
         declared_human_control |-> Undefined,
         process_declaration |->
             Obj([no_ai_in_final |-> Undefined,
                  software_used |-> software_used,
                  evidence_promised |-> Undefined]),
         artist_declaration |->
             Obj([execution_year |-> Undefined, file_format |-> Undefined]),
         forensic_pre_evaluation |-> grade])

ManualWork ==
    IntakeData(Num(0), Undefined, Undefined, Str("1.0.0"),
               Obj([pre_confidence_grade |-> Str("CG-2")]))

AssistedWork ==
    IntakeData(Num(4), List(<<AiTool(Str("Midjourney"), Undefined)>>), Undefined,
               Str("1.0.0"), Undefined)

UnsupportedIntake ==
    IntakeData(Num(0), Undefined, Undefined, Str("0.9.0"), Undefined)


\* the tables of the store; during one call at most one of them rejects inserts
Tables == {"intake_frozen", "audit_cases", "audit_logs", "evidence_metadata",
           "ai_signal_results"}

outcomeOf(failing, table) == IF failing = table THEN "error" ELSE "ok"

\* variant: a rejected log entry is thrown into the handler's catch
recordLog_throwing(s, log, failing, answer) ==
    IF failing = "audit_logs"
    THEN [store |-> s,
          response |-> Respond(answer.endpoint, 500, [error |-> "ERROR"])]
    ELSE [store |-> [s EXCEPT !.audit_logs = insert(@, log, "ok")],
          response |-> answer]

\* the audit log entry that ends a stage: a rejected insert is only reported
\* on the console and the answer is sent as computed
recordLog(s, log, failing, answer) ==
    [store |-> [s EXCEPT !.audit_logs =
                    insert(@, log, outcomeOf(failing, "audit_logs"))],
     response |-> answer]

\* .eq("case_id", case_id).single(): the rows found
casesWith(s, case_id) ==
    SelectSeq(s.audit_cases, LAMBDA row : row.case_id = case_id)

\* the intake_frozen row joined to an audit case
frozenOf(s, auditCase) ==
    SelectSeq(s.intake_frozen, LAMBDA row : row.id = auditCase.intake_frozen_id)

\* .eq("case_id", case_id).order(<time>, {ascending: false}).limit(1)
latestOf(table, case_id) ==
    LET found == SelectSeq(table, LAMBDA row : row.case_id = case_id)
    IN  IF found = <<>> THEN <<>> ELSE <<found[Len(found)]>>

\* POST /analysis/metadata once analyzeMetadata has ended: the log entry and
\* the answer
metadataAnalysed(s, case_id, analysisResult, failing) ==
    IF analysisResult.status = "raised"
    THEN [store |-> s,
          response |-> Respond("analysis/metadata", 500,
                               [error |-> "ERROR_ANALISIS_TECNICO"])]
    ELSE recordLog(s,
                   [case_id |-> case_id, action |-> "metadata_analysis_executed",
                    details |-> [flags_count |-> Len(analysisResult.metadata_flags),
                                 flags |-> analysisResult.metadata_flags,
                                 analysis_version |-> analysisResult.analysis_version]],
                   failing,
                   Respond("analysis/metadata", 200,
                           [case_id |-> case_id,
                            metadata_flags |-> analysisResult.metadata_flags,
                            analysis_version |-> analysisResult.analysis_version]))

\* POST /analysis/metadata: the store and the response after the handler
analysisMetadata(s, case_id, f, failing) ==
    LET found == casesWith(s, case_id)
    IN  IF ~Truthy(case_id)
        THEN [store |-> s,
              response |-> Respond("analysis/metadata", 400,
                                   [error |-> "PARAMETROS_INCOMPLETOS"])]
        ELSE IF Len(found) # 1
        THEN [store |-> s,
              response |-> Respond("analysis/metadata", 404,
                                   [error |-> "CASO_NO_ENCONTRADO"])]
        ELSE IF frozenOf(s, found[1]) = <<>>
        THEN [store |-> s,
              response |-> Respond("analysis/metadata", 500,
                                   [error |-> "ERROR_ANALISIS_TECNICO"])]
        ELSE metadataAnalysed(s, case_id,
                              analyzeMetadata(frozenOf(s, found[1])[1].aura_intake_json,
                                              f),
                              failing)

\* one turn of the loop of POST /analysis/metadata-extract, for an evidence
\* with both fields, once extractEvidenceMetadata has ended; rest is what the
\* following turns give
evidenceExtracted(case_id, evidence, extractionResult, rest, failing) ==
    IF extractionResult.status = "raised"
    THEN [rest EXCEPT !.processingErrors =
              <<[evidence_id |-> evidence.evidence_id,
                 error |-> "error.message"]>> \o @]
    ELSE IF outcomeOf(failing, "evidence_metadata") = "error"
    THEN [rest EXCEPT !.processingErrors =
              <<[evidence_id |-> evidence.evidence_id,
                 error |-> "insertError.message"]>> \o @]
    ELSE [rest EXCEPT !.rows =
              <<[case_id |-> case_id,
                 evidence_id |-> evidence.evidence_id,
                 metadata |-> extractionResult.metadata,
                 extraction_version |-> extractionResult.extraction_version]>> \o @,
                      !.processedCount = @ + 1]

\* the loop of POST /analysis/metadata-extract over the evidences: the rows
\* inserted, the count of processed items and the error list
RECURSIVE processEvidences(_, _, _)
processEvidences(case_id, evidences, failing) ==
    IF evidences = <<>>
    THEN [rows |-> <<>>, processedCount |-> 0, processingErrors |-> <<>>]
    ELSE IF ~Truthy(Head(evidences).evidence_id)
            \/ ~Truthy(Head(evidences).file.file_url)
    THEN [processEvidences(case_id, Tail(evidences), failing)
          EXCEPT !.processingErrors =
              <<[evidence_id |-> Head(evidences).evidence_id,
                 error |-> "Campos incompletos"]>> \o @]
    ELSE evidenceExtracted(case_id, Head(evidences),
                           extractEvidenceMetadata(Head(evidences).file),
                           processEvidences(case_id, Tail(evidences), failing),
                           failing)

\* POST /analysis/metadata-extract after the loop: the rows, the log entry and
\* the answer
evidencesProcessed(s, case_id, total_evidences, loop, failing) ==
    recordLog([s EXCEPT !.evidence_metadata = @ \o loop.rows],
              [case_id |-> case_id, action |-> "metadata_extracted",
               details |-> [evidences_processed |-> loop.processedCount,
                            total_evidences |-> total_evidences,
                            errors |-> loop.processingErrors]],
              failing,
              Respond("analysis/metadata-extract", 200,
                      [case_id |-> case_id,
                       evidences_processed |-> loop.processedCount,
                       metadata_extracted |-> loop.processedCount > 0]))

\* POST /analysis/metadata-extract: the store and the response after the handler
metadataExtract(s, case_id, evidences, failing) ==
    IF ~Truthy(case_id)
    THEN [store |-> s,
          response |-> Respond("analysis/metadata-extract", 400,
                               [error |-> "PARAMETROS_INCOMPLETOS"])]
    ELSE IF Len(casesWith(s, case_id)) # 1
    THEN [store |-> s,
          response |-> Respond("analysis/metadata-extract", 404,
                               [error |-> "CASO_NO_ENCONTRADO"])]
    ELSE evidencesProcessed(s, case_id, Len(evidences),
                            processEvidences(case_id, evidences, failing), failing)

\* temporary files the extractions of a batch leave behind
RECURSIVE leftoverOfBatch(_)
leftoverOfBatch(evidences) ==
    IF evidences = <<>> THEN 0
    ELSE (IF Truthy(Head(evidences).evidence_id)
             /\ Truthy(Head(evidences).file.file_url)
          THEN leftoverTemp(Head(evidences).file) ELSE 0)
         + leftoverOfBatch(Tail(evidences))


\* the models model_fingerprinting looks for in metadata.software
knownModels == <<"Stable Diffusion", "DALL-E", "Midjourney", "Adobe Firefly">>

\* aiSignalTechniques.model_fingerprinting(metadata); Thrown when
\* metadata.software has no includes method
model_fingerprinting(metadata) ==
    LET software == Prop(metadata, "software")
        matching == SelectSeq(knownModels, LAMBDA model : includes(software.v, model))
    IN  IF ~Truthy(software)
        THEN Obj([score |-> Num(20), reliability |-> Num(30),
                  model |-> Str("No detectable")])
        ELSE IF ~IsString(software) THEN Thrown
        ELSE IF matching = <<>>
        THEN Obj([score |-> Num(20), reliability |-> Num(30),
                  model |-> Str("No detectable")])
        ELSE Obj([score |-> Num(80), reliability |-> Num(90),
                  model |-> Str(matching[1])])

\* the five signals of the panel; draws holds what clip_similarity,
\* noise_analysis, spectral_analysis and dataset_resemblance returned
aiSignalsOf(draws, metadata) ==
    Obj([clip |-> draws[1], noise |-> draws[2], spectral |-> draws[3],
         fingerprint |-> model_fingerprinting(metadata), dataset |-> draws[4]])

\* Object.values(ai_signals)
valuesOf(ai_signals) ==
    <<ai_signals.v.clip, ai_signals.v.noise, ai_signals.v.spectral,
      ai_signals.v.fingerprint, ai_signals.v.dataset>>

\* the number totalScore / totalReliability, in hundredths
quotient(q) == Num(q.num \div q.den)

\* POST /analysis/ai-signals once the panel, the aggregation and the band are
\* computed: the row, the log entry and the answer
signalsAggregated(s, case_id, ai_signals, aggregated_score, confidence, integrity, failing) ==
    recordLog([s EXCEPT !.ai_signal_results =
                   insert(@, [case_id |-> case_id,
                              ai_signals |-> ai_signals,
                              aggregated_score |-> aggregated_score,
                              confidence |-> Str(confidence),
                              analysis_version |-> Str("3.2.0")],
                          outcomeOf(failing, "ai_signal_results"))],
              [case_id |-> case_id, action |-> "ai_signal_analysis_executed",
               details |-> [signals_count |-> 5,
                            aggregated_score |-> aggregated_score,
                            confidence |-> confidence,
                            metadata_integrity |-> integrity]],
              failing,
              Respond("analysis/ai-signals", 200,
                      [case_id |-> case_id,
                       ai_signals |-> ai_signals,
                       aggregated_score |-> aggregated_score,
                       confidence |-> Str(confidence),
                       analysis_version |-> Str("3.2.0")]))

\* the panel run on the metadata record and its aggregation
signalsDetected(s, case_id, ai_signals, integrity, failing) ==
    signalsAggregated(s, case_id, ai_signals,
                      quotient(calculateWeightedAggregation(valuesOf(ai_signals))),
                      calculateConfidence(valuesOf(ai_signals), integrity),
                      integrity, failing)

\* POST /analysis/ai-signals with the latest metadata record of the case
signalsOfRecord(s, case_id, metadata, draws, failing) ==
    IF IsThrown(model_fingerprinting(metadata))
    THEN [store |-> s,
          response |-> Respond("analysis/ai-signals", 500,
                               [error |-> "ERROR_DETECCION_SEÑALES_IA"])]
    ELSE signalsDetected(s, case_id, aiSignalsOf(draws, metadata),
                         metadataIntegrity(metadata), failing)

\* POST /analysis/ai-signals: the store and the response after the handler
analysisAiSignals(s, case_id, draws, failing) ==
    IF ~Truthy(case_id)
    THEN [store |-> s,
          response |-> Respond("analysis/ai-signals", 400,
                               [error |-> "PARAMETROS_INCOMPLETOS"])]
    ELSE IF Len(casesWith(s, case_id)) # 1
    THEN [store |-> s,
          response |-> Respond("analysis/ai-signals", 404,
                               [error |-> "CASO_NO_ENCONTRADO"])]
    ELSE IF latestOf(s.evidence_metadata, case_id) = <<>>
    THEN [store |-> s,
          response |-> Respond("analysis/ai-signals", 400,
                               [error |-> "METADATOS_NO_DISPONIBLES"])]
    ELSE signalsOfRecord(s, case_id,
                         latestOf(s.evidence_metadata, case_id)[1].metadata,
                         draws, failing)

\* the logs of one action of a case
logsOf(s, case_id, action) ==
    SelectSeq(s.audit_logs, LAMBDA row : row.case_id = case_id /\ row.action = action)

\* the technical evidence POST /analysis/consistency reads from the store
storedEvidence(s, case_id) ==
    LET metadataLogs == logsOf(s, case_id, "metadata_analysis_executed")
        evidenceMetadata == latestOf(s.evidence_metadata, case_id)
        aiSignalResults == latestOf(s.ai_signal_results, case_id)
    IN  [metadata_flags |->
             IF metadataLogs = <<>> THEN <<>>
             ELSE metadataLogs[Len(metadataLogs)].details.flags,
         extracted_metadata |->
             IF evidenceMetadata = <<>> THEN Obj(<<>>)
             ELSE OrElse(evidenceMetadata[1].metadata, Obj(<<>>)),
         ai_signals |->
             IF aiSignalResults = <<>> THEN Null ELSE Obj(aiSignalResults[1])]

\* a result that repeats the declared level as a level of its own
consistencyBody_graded(case_id, consistencyResult) ==
    [case_id |-> case_id,
     consistency_result |-> consistencyResult.consistency_result,
     affected_dimensions |-> consistencyResult.affected_dimensions,
     engine_version |-> "2.4.0",
     git_level |-> IF consistencyResult.consistency_result = "CONTRADICTORY"
                   THEN 5 ELSE 0]

\* the four fields of the engine's result that the model keeps
consistencyBody(case_id, consistencyResult) ==
    [case_id |-> case_id,
     consistency_result |-> consistencyResult.consistency_result,
     affected_dimensions |-> consistencyResult.affected_dimensions,
     engine_version |-> "2.4.0"]

\* POST /analysis/consistency once evaluateConsistency has ended on the
\* technical evidence te: the log entry and the answer
consistencyEvaluated(s, case_id, te, consistencyResult, failing) ==
    IF consistencyResult.status = "raised"
    THEN [store |-> s,
          response |-> Respond("analysis/consistency", 500,
                               [error |-> "ERROR_EVALUACION_CONSISTENCIA"])]
    ELSE recordLog(s,
                   [case_id |-> case_id, action |-> "consistency_evaluation_executed",
                    details |-> [consistency_result |->
                                     consistencyResult.consistency_result,
                                 affected_dimensions |->
                                     consistencyResult.affected_dimensions,
                                 engine_version |-> "2.4.0"]],
                   failing,
                   [Respond("analysis/consistency", 200,
                            consistencyBody(case_id, consistencyResult))
                    EXCEPT !.evaluated = te])

\* the evaluation of the declaration against the technical evidence te
consistencyOf(s, case_id, intake_json, te, manifest, failing) ==
    consistencyEvaluated(s, case_id, te,
                         evaluateConsistency(intake_json, te,
                                             OrElse(manifest, Obj(<<>>))),
                         failing)

\* POST /analysis/consistency: the store and the response after the handler
analysisConsistency(s, case_id, manifest, failing) ==
    LET found == casesWith(s, case_id)
    IN  IF ~Truthy(case_id)
        THEN [store |-> s,
              response |-> Respond("analysis/consistency", 400,
                                   [error |-> "PARAMETROS_INCOMPLETOS"])]
        ELSE IF Len(found) # 1
        THEN [store |-> s,
              response |-> Respond("analysis/consistency", 404,
                                   [error |-> "CASO_NO_ENCONTRADO"])]
        ELSE IF frozenOf(s, found[1]) = <<>>
        THEN [store |-> s,
              response |-> Respond("analysis/consistency", 500,
                                   [error |-> "ERROR_EVALUACION_CONSISTENCIA"])]
        ELSE consistencyOf(s, case_id, frozenOf(s, found[1])[1].aura_intake_json,
                           storedEvidence(s, case_id), manifest, failing)

\* file_urls.map((url, index) => ({evidence_id: `EVIDENCE_${index + 1}`, file_url: url}))
evidencesOf(file_urls) ==
    [index \in 1..Len(file_urls) |->
        [evidence_id |-> Str("EVIDENCE_" \o ToString(index)),
         file |-> file_urls[index]]]

\* POST /analysis/pipeline once its consistency step has ended on the
\* technical evidence te: the consolidated answer
pipelineEvaluated(s, case_id, withFiles, metadata_flags, extraction_answer, signals, te, consistencyResult) ==
    IF consistencyResult.status = "raised"
    THEN [store |-> s,
          response |-> Respond("analysis/pipeline", 500,
                               [error |-> "ERROR_PIPELINE_COMPLETO"])]
    ELSE [store |-> s,
          response |->
              [Respond("analysis/pipeline", 200,
                       [case_id |-> case_id,
                        with_files |-> withFiles,
                        metadata_analysis |-> metadata_flags,
                        metadata_extraction |-> extraction_answer,
                        ai_signal_detection |-> signals,
                        consistency_evaluation |->
                            consistencyBody(case_id, consistencyResult)])
               EXCEPT !.evaluated = te]]

\* the consistency step of the pipeline on the technical evidence te
pipelineConsistency(s, case_id, intake_json, withFiles, extraction_answer, signals, te, manifest) ==
    pipelineEvaluated(s, case_id, withFiles, te.metadata_flags, extraction_answer,
                      signals, te,
                      evaluateConsistency(intake_json, te,
                                          OrElse(manifest, Obj([files |-> List(<<>>)]))))

\* the pipeline after the request to POST /analysis/ai-signals: the technical
\* evidence of its consistency step
pipelineSignalled(case_id, intake_json, withFiles, metadata_flags, extraction_answer, signal_step, manifest) ==
    pipelineConsistency(signal_step.store, case_id, intake_json, withFiles,
                        extraction_answer, signal_step.response,
                        [metadata_flags |-> metadata_flags,
                         extracted_metadata |-> Obj(<<>>),
                         ai_signals |->
                             IF signal_step.response.status = 200
                             THEN Obj(signal_step.response.body)
                             ELSE Obj([error |->
                                           Str(signal_step.response.body.error)])],
                        manifest)

\* the pipeline after its extraction step: the request to POST
\* /analysis/ai-signals
pipelineExtracted(case_id, intake_json, withFiles, metadata_flags, extraction_step, manifest, draws, failing) ==
    pipelineSignalled(case_id, intake_json, withFiles, metadata_flags,
                      extraction_step.response,
                      analysisAiSignals(extraction_step.store, case_id, draws, failing),
                      manifest)

\* the pipeline with file_urls once analyzeMetadata has ended: the request to
\* POST /analysis/metadata-extract
pipelineAnalysed(s, case_id, intake_json, file_urls, metadataResult, manifest, draws, failing) ==
    IF metadataResult.status = "raised"
    THEN [store |-> s,
          response |-> Respond("analysis/pipeline", 500,
                               [error |-> "ERROR_PIPELINE_COMPLETO"])]
    ELSE pipelineExtracted(case_id, intake_json, TRUE, metadataResult.metadata_flags,
                           metadataExtract(s, case_id, evidencesOf(file_urls), failing),
                           manifest, draws, failing)

\* the steps of the pipeline for the frozen declaration intake_json
pipelineSteps(s, case_id, intake_json, file_urls, manifest, draws, failing) ==
    IF Len(file_urls) > 0
    THEN pipelineAnalysed(s, case_id, intake_json, file_urls,
                          analyzeMetadata(intake_json, file_urls[1]), manifest,
                          draws, failing)
    ELSE pipelineExtracted(case_id, intake_json, FALSE, <<>>,
                           [store |-> s, response |-> NoResponse],
                           manifest, draws, failing)

\* POST /analysis/pipeline: the store and the response after the handler; the
\* extraction and the signal steps are requests to the endpoints above
analysisPipeline(s, case_id, file_urls, manifest, draws, failing) ==
    LET found == casesWith(s, case_id)
    IN  IF ~Truthy(case_id)
        THEN [store |-> s,
              response |-> Respond("analysis/pipeline", 400,
                                   [error |-> "PARAMETROS_INCOMPLETOS"])]
        ELSE IF Len(found) # 1
        THEN [store |-> s,
              response |-> Respond("analysis/pipeline", 404,
                                   [error |-> "CASO_NO_ENCONTRADO"])]
        ELSE IF frozenOf(s, found[1]) = <<>>
        THEN [store |-> s,
              response |-> Respond("analysis/pipeline", 500,
                                   [error |-> "ERROR_PIPELINE_COMPLETO"])]
        ELSE pipelineSteps(s, case_id, frozenOf(s, found[1])[1].aura_intake_json,
                           file_urls, manifest, draws, failing)


(***************************************************************************)
(* The service and its callers                                             *)
(* One behaviour is about one declaration, the file behind the evidence    *)
(* URL, one manifest and what the four random detectors return; the calls  *)
(* pick the endpoint, the batch and the table that rejects inserts.        *)
(***************************************************************************)
EvidenceUrl == Str("https://files/evidence")

\* a PNG exported from GIMP with one more tag: four keys after normalisation
PlainFile ==
    File(EvidenceUrl, "ok", "ok", Str("image/png"), "ok",
         Tags(Str("GIMP"), Undefined, Date(2023), Str("PNG")))

\* a PNG carrying five tags, its software naming a known model: six keys
RichFile ==
    File(EvidenceUrl, "ok", "ok", Str("image/png"), "ok",
         Obj([Software |-> Str("Midjourney v6"), CreatorTool |-> Str("PHOTO"),
              DateTimeOriginal |-> Date(2023), CreateDate |-> Date(2023),
              FileType |-> Str("PNG")]))

\* a PNG carrying five tags, its software tag empty: six keys, no model named
UnsignedFile ==
    File(EvidenceUrl, "ok", "ok", Str("image/png"), "ok",
         Obj([Software |-> Str(""), CreatorTool |-> Str("PHOTO"),
              DateTimeOriginal |-> Date(2023), CreateDate |-> Date(2023),
              FileType |-> Str("PNG")]))

\* a URL whose download fails
UnreachableFile ==
    File(Str("https://files/gone"), "error", "ok", Undefined, "ok", NoTags)

ServerFiles == {PlainFile, RichFile, UnsignedFile, UnreachableFile}

\* what clip_similarity, noise_analysis, spectral_analysis and
\* dataset_resemblance return: scores inside their ranges, chosen so that the
\* weighted aggregation is a whole number of hundredths
CalmDraws ==
    <<Signal(Num(50), Num(60)), Signal(Num(44), Num(70)),
      Signal(Num(50), Num(60)), Signal(Num(44), Num(50))>>

StrongDraws ==
    <<Signal(Num(79), Num(60)), Signal(Num(77), Num(70)),
      Signal(Num(79), Num(60)), Signal(Num(47), Num(50))>>

FullManifest ==
    Manifest(TRUE, TRUE, TRUE, TRUE, TRUE,
             List(<<EvidenceItem(Str("source"), Str("sketch.psd"))>>))

ServerWorlds ==
    {[Request(d, f, Technical(<<>>, Undefined, Null), manifest)
      EXCEPT !.detectors = draws] :
        d \in {ManualWork, AssistedWork, UnsupportedIntake},
        f \in ServerFiles,
        manifest \in {Undefined, FullManifest},
        draws \in {CalmDraws, StrongDraws}}

\* the service after start-up: an empty store, no call of a module pending
ServerInit ==
    /\ \E r \in ServerWorlds :
        /\ intake_declarations = r.intake_declarations
        /\ file = r.file
        /\ technical_evidence = r.technical_evidence
        /\ evidence_list = r.evidence_list
        /\ detectors = r.detectors
    /\ analysis = NotRun
    /\ extraction = NotRun
    /\ consistency = NotRun
    /\ signal_result = NotRun
    /\ store = EmptyStore
    /\ response = NoResponse
    /\ temp_files = 0
    /\ calls = 0

\* the case a request names: a case of the store, or an unknown one while
\* there is none
CaseChoices ==
    IF store.audit_cases = <<>> THEN {Str("AURA-0000-00-XXXXXX")}
    ELSE {store.audit_cases[i].case_id : i \in 1..Len(store.audit_cases)}

\* the batches a caller submits for extraction
Batches ==
    {<<[evidence_id |-> Str("E1"), file |-> file]>>,
     <<[evidence_id |-> Undefined, file |-> file],
       [evidence_id |-> Str("E2"), file |-> UnreachableFile],
       [evidence_id |-> Str("E3"), file |-> file]>>}

Answered(after) ==
    /\ store' = after.store
    /\ response' = after.response
    /\ calls' = calls + 1

IntakeFreeze ==
    /\ calls < MaxCalls
    /\ \E intake_data \in {intake_declarations, Undefined},
          failing \in {"none", "intake_frozen", "audit_cases", "audit_logs"} :
           Answered(intakeFreeze(store, intake_data,
                                 calculateSHA256Deterministic(intake_data),
                                 outcomeOf(failing, "intake_frozen"),
                                 outcomeOf(failing, "audit_cases"),
                                 outcomeOf(failing, "audit_logs")))
    /\ UNCHANGED <<moduleVars, temp_files>>

AnalysisMetadata ==
    /\ calls < MaxCalls
    /\ \E case_id \in CaseChoices, failing \in {"none", "audit_logs"} :
           Answered(analysisMetadata(store, case_id, file, failing))
    /\ temp_files' = temp_files
                     + (IF response'.status = 200 THEN leftoverTemp(file) ELSE 0)
    /\ UNCHANGED moduleVars

MetadataExtract ==
    /\ calls < MaxCalls
    /\ \E case_id \in CaseChoices, evidences \in Batches,
          failing \in {"none", "evidence_metadata", "audit_logs"} :
           /\ Answered(metadataExtract(store, case_id, evidences, failing))
           /\ temp_files' = temp_files
                            + (IF response'.status = 200
                               THEN leftoverOfBatch(evidences) ELSE 0)
    /\ UNCHANGED moduleVars

AnalysisAiSignals ==
    /\ calls < MaxCalls
    /\ \E case_id \in CaseChoices,
          failing \in {"none", "ai_signal_results", "audit_logs"} :
           Answered(analysisAiSignals(store, case_id, detectors, failing))
    /\ UNCHANGED <<moduleVars, temp_files>>

AnalysisConsistency ==
    /\ calls < MaxCalls
    /\ \E case_id \in CaseChoices, failing \in {"none", "audit_logs"} :
           Answered(analysisConsistency(store, case_id, evidence_list, failing))
    /\ UNCHANGED <<moduleVars, temp_files>>

AnalysisPipeline ==
    /\ calls < MaxCalls
    /\ \E case_id \in CaseChoices, file_urls \in {<<>>, <<file>>},
          failing \in {"none", "evidence_metadata", "ai_signal_results",
                       "audit_logs"} :
           /\ Answered(analysisPipeline(store, case_id, file_urls, evidence_list,
                                        detectors, failing))
           /\ temp_files' = temp_files
                            + (IF response'.status = 200 /\ file_urls # <<>>
                               THEN 2 * leftoverTemp(file) ELSE 0)
    /\ UNCHANGED moduleVars

ServerNext ==
    \/ IntakeFreeze
    \/ AnalysisMetadata
    \/ MetadataExtract
    \/ AnalysisAiSignals
    \/ AnalysisConsistency
    \/ AnalysisPipeline

ServerSpec == ServerInit /\ [][ServerNext]_vars

\* the detectors' draws aggregate to whole hundredths with either fingerprint
ExactQuotients ==
    \A metadata \in {Obj(<<>>), Obj([software |-> Str("Midjourney v6")])} :
        LET q == calculateWeightedAggregation(valuesOf(aiSignalsOf(detectors, metadata)))
        IN  Len(detectors) = 4 => q.num % q.den = 0


(***************************************************************************)
(* C30: one case per frozen declaration                                    *)
(***************************************************************************)
CasesOf(frozen) ==
    {i \in 1..Len(store.audit_cases) : store.audit_cases[i].intake_frozen_id = frozen.id}

IntakeLogsOf(frozen) ==
    {i \in 1..Len(store.audit_logs) :
        /\ store.audit_logs[i].action = "intake_frozen"
        /\ store.audit_logs[i].details.intake_frozen_id = frozen.id}

\* C30: after any sequence of POST /intake-freeze requests, failed inserts and
\* resubmissions included, every frozen declaration row has exactly one audit
\* case referencing it and one 'intake_frozen' audit log entry, and no
\* declaration is frozen twice.
C30_OneCasePerDeclaration ==
    /\ \A i \in 1..Len(store.intake_frozen) :
           /\ Cardinality(CasesOf(store.intake_frozen[i])) = 1
           /\ Cardinality(IntakeLogsOf(store.intake_frozen[i])) = 1
    /\ \A i, j \in 1..Len(store.intake_frozen) :
           store.intake_frozen[i].server_hash = store.intake_frozen[j].server_hash
               => i = j


(***************************************************************************)
(* C22: the stage order                                                    *)
(***************************************************************************)
Succeeded(endpoint) == response.endpoint = endpoint /\ response.status = 200

HasExtraction(case_id) == latestOf(store.evidence_metadata, case_id) # <<>>

HasSignalResult(case_id) == latestOf(store.ai_signal_results, case_id) # <<>>

\* C22: over every sequence of endpoint calls, a signal result is computed and
\* stored only if an extraction record exists for the case, and a consistency
\* evaluation is performed and its result returned only if an extraction
\* record and a signal result exist for the case; for POST
\* /analysis/ai-signals, POST /analysis/consistency and POST
\* /analysis/pipeline.
C22_StageOrder ==
    /\ Succeeded("analysis/ai-signals") => HasExtraction(response.body.case_id)
    /\ Succeeded("analysis/consistency") =>
           /\ HasExtraction(response.body.case_id)
           /\ HasSignalResult(response.body.case_id)
    /\ Succeeded("analysis/pipeline") =>
           /\ response.body.ai_signal_detection.status = 200 =>
                  HasExtraction(response.body.case_id)
           /\ HasExtraction(response.body.case_id)
           /\ response.body.ai_signal_detection.status = 200


(***************************************************************************)
(* C23: the store only grows                                               *)
(***************************************************************************)
\* every row of before is, unchanged and at its place, a row of after
KeepsRows(before, after) ==
    /\ Len(before) <= Len(after)
    /\ \A i \in 1..Len(before) : after[i] = before[i]

StoreKept == \A table \in Tables : KeepsRows(store[table], store'[table])

\* C23: over any sequence of endpoint calls every row written to
\* intake_frozen, audit_cases, audit_logs, evidence_metadata and
\* ai_signal_results stays present with unchanged content; a stage that is run
\* again only adds records.
C23_AppendOnly == [][StoreKept]_vars

\* an extraction run again for the case: its rows follow those of the first run
C23_Witness ==
    /\ calls = 3
    /\ Succeeded("analysis/metadata-extract")
    /\ Len(store.evidence_metadata) >= 3
    /\ \A i \in 1..Len(store.evidence_metadata) :
           store.evidence_metadata[i].case_id = response.body.case_id

\* a signal analysis run again for the case
C23_SignalWitness ==
    /\ Succeeded("analysis/ai-signals")
    /\ Len(store.ai_signal_results) = 2


(***************************************************************************)
(* C25: a failed persistence does not change the answer                    *)
(***************************************************************************)
\* the step is a call of the endpoint
CallOf(endpoint) == calls' = calls + 1 /\ response'.endpoint = endpoint

\* the step answers as the handler does when the store accepts every insert
AnswersAs(accepted) ==
    accepted.response.status = 200 => response' = accepted.response

\* C25: when the store fails to persist a stage's result or its audit log
\* entry, the computed result is still returned with a success status and
\* unchanged values; for the metadata analysis, the signal aggregation and
\* the consistency evaluation endpoints.
C25_ResultReturned ==
    [][\A case_id \in CaseChoices :
           /\ CallOf("analysis/metadata") =>
                  AnswersAs(analysisMetadata(store, case_id, file, "none"))
           /\ CallOf("analysis/ai-signals") =>
                  AnswersAs(analysisAiSignals(store, case_id, detectors, "none"))
           /\ CallOf("analysis/consistency") =>
                  AnswersAs(analysisConsistency(store, case_id, evidence_list,
                                                "none"))]_vars

\* a metadata analysis answered with its flags although its log entry was lost
C25_Witness ==
    /\ Succeeded("analysis/metadata")
    /\ response.body.metadata_flags # <<>>
    /\ logsOf(store, response.body.case_id, "metadata_analysis_executed") = <<>>

\* a signal analysis answered although its result was not stored
C25_SignalWitness ==
    /\ Succeeded("analysis/ai-signals")
    /\ store.ai_signal_results = <<>>
    /\ response.body.confidence = Str("MEDIUM")

\* a consistency evaluation answered although its log entry was lost
C25_ConsistencyWitness ==
    /\ Succeeded("analysis/consistency")
    /\ logsOf(store, response.body.case_id, "consistency_evaluation_executed") = <<>>



(***************************************************************************)
(* C26: item failures of an extraction batch                               *)
(***************************************************************************)
\* the extraction of the evidence's file produced metadata
ExtractionDone(evidence) ==
    LET extractionResult == extractEvidenceMetadata(evidence.file)
    IN  /\ extractionResult.status = "returned"
        /\ ~Truthy(extractionResult.extraction_error)

\* the items of the batch whose extraction and persistence both succeed
ItemsDone(evidences, failing) ==
    {i \in 1..Len(evidences) :
        /\ Truthy(evidences[i].evidence_id)
        /\ Truthy(evidences[i].file.file_url)
        /\ ExtractionDone(evidences[i])
        /\ outcomeOf(failing, "evidence_metadata") = "ok"}

\* the error list has an entry for the item
Reported(processingErrors, evidence) ==
    \E j \in 1..Len(processingErrors) :
        processingErrors[j].evidence_id = evidence.evidence_id

\* the step is the extraction call for the batch, answered with status 200
ExtractCall(case_id, evidences, failing) ==
    /\ CallOf("analysis/metadata-extract")
    /\ response'.status = 200
    /\ store' = metadataExtract(store, case_id, evidences, failing).store
    /\ response' = metadataExtract(store, case_id, evidences, failing).response

\* the items that failed are reported and the others are not
FailuresReported(case_id, evidences, failing) ==
    LET loop == processEvidences(case_id, evidences, failing)
    IN  \A i \in 1..Len(evidences) :
            Reported(loop.processingErrors, evidences[i])
                <=> i \notin ItemsDone(evidences, failing)

\* C26: in POST /analysis/metadata-extract with several evidence items, a
\* failure of any one item (missing evidence_id or file_url, failed fetch or
\* extraction, failed insert) is recorded as an entry for that item in the
\* error list and is not counted as processed, while every other item is still
\* processed; evidences_processed equals the number of items whose extraction
\* and persistence both succeeded.
C26_ItemFailuresIsolated ==
    [][\A case_id \in CaseChoices, evidences \in Batches,
          failing \in {"none", "evidence_metadata", "audit_logs"} :
           ExtractCall(case_id, evidences, failing) =>
               /\ FailuresReported(case_id, evidences, failing)
               /\ response'.body.evidences_processed
                      = Cardinality(ItemsDone(evidences, failing))]_vars



(***************************************************************************)
(* C27: the analysis stages decide nothing                                 *)
(***************************************************************************)
\* the names under which a GIT level, a confidence grade or a validity would
\* be carried
DecisionFields ==
    {"git", "git_level", "declared_git_level", "original_git",
     "cg", "confidence_grade", "pre_confidence_grade", "original_cg",
     "valid", "validity", "is_valid", "verdict", "authentic", "status"}

Undecided(result) == DOMAIN result \cap DecisionFields = {}

\* the bodies a response carries: its own and, for the pipeline, those of its
\* steps
BodiesOf(r) ==
    IF r.endpoint = "analysis/pipeline" /\ r.status = 200
    THEN {r.body, r.body.metadata_extraction.body, r.body.ai_signal_detection.body,
          r.body.consistency_evaluation}
    ELSE {r.body}

\* the records the analysis stages have produced in the store s
ResultsIn(s) ==
    {s.evidence_metadata[i] : i \in 1..Len(s.evidence_metadata)}
    \cup {s.evidence_metadata[i].metadata.v : i \in 1..Len(s.evidence_metadata)}
    \cup {s.ai_signal_results[i] : i \in 1..Len(s.ai_signal_results)}
    \cup {s.audit_logs[i].details :
             i \in {j \in 1..Len(s.audit_logs) : s.audit_logs[j].action # "intake_frozen"}}

\* the step is a call of one of the analysis endpoints
AnalysisCall == calls' = calls + 1 /\ response'.endpoint # "intake-freeze"

\* C27: no analysis stage decides anything about a case: over any sequence of
\* calls to the metadata, extraction, signal, consistency and pipeline
\* endpoints each audit case's original_git, original_cg and status and its
\* frozen declaration stay exactly as written at intake, and no result these
\* stages produce contains a GIT level, a confidence grade or a validity
\* field.
C27_NoDecision ==
    [][AnalysisCall =>
           /\ store'.audit_cases = store.audit_cases
           /\ store'.intake_frozen = store.intake_frozen
           /\ \A result \in BodiesOf(response') \cup ResultsIn(store') :
                  Undecided(result)]_vars


\* a consistency evaluation that found the declaration contradicted, the case
\* still a draft with the level and the grade it was given at intake
C27_Witness ==
    /\ Succeeded("analysis/consistency")
    /\ response.body.consistency_result = "CONTRADICTORY"
    /\ Len(store.audit_cases) = 1
    /\ store.audit_cases[1].case_id = response.body.case_id
    /\ store.audit_cases[1].status = "draft"
    /\ store.audit_cases[1].original_git
           = OptProp(OptProp(intake_declarations, "genesis_declaration"),
                     "declared_git_level")
    /\ store.intake_frozen[1].aura_intake_json = intake_declarations

\* a pipeline run whose signal and consistency steps both answered
C27_PipelineWitness ==
    /\ Succeeded("analysis/pipeline")
    /\ response.body.ai_signal_detection.status = 200
    /\ response.body.consistency_evaluation.consistency_result = "CONTRADICTORY"
    /\ store.audit_cases[1].status = "draft"



(***************************************************************************)
(* C28: the band of the built-in panel                                     *)
(***************************************************************************)
\* scores at the ends of the ranges of clip_similarity, noise_analysis,
\* spectral_analysis and dataset_resemblance, with the reliabilities the code
\* gives them
PanelDraws ==
    {<<Signal(Num(clip), Num(60)), Signal(Num(noise), Num(70)),
       Signal(Num(spectral), Num(60)), Signal(Num(dataset), Num(50))>> :
        clip \in {50, 80}, noise \in {40, 80}, spectral \in {30, 80},
        dataset \in {20, 70}}

\* the band the claim gives a metadata record
BandOf(metadata) == IF keyCount(metadata) > 5 THEN "MEDIUM" ELSE "LOW"

\* the metadata record the last signal analysis was run on
PanelRecord == latestOf(store.evidence_metadata, response.body.case_id)[1].metadata

\* C28: through POST /analysis/ai-signals with the built-in five-detector
\* panel the confidence band is never HIGH, whatever the metadata record and
\* the detector scores: it is MEDIUM iff the metadata record has more than 5
\* keys and LOW otherwise; so a consistency evaluation fed from stored signal
\* results never reaches the HIGH-confidence CONTRADICTORY branches of PROCESS
\* or CONTROL.
C28_NeverHigh ==
    /\ Succeeded("analysis/ai-signals") =>
           /\ response.body.confidence = Str(BandOf(PanelRecord))
           /\ \A draws \in PanelDraws :
                  calculateConfidence(valuesOf(aiSignalsOf(draws, PanelRecord)),
                                      metadataIntegrity(PanelRecord))
                      = BandOf(PanelRecord)
    /\ \A i \in 1..Len(store.ai_signal_results) :
           store.ai_signal_results[i].confidence \in {Str("LOW"), Str("MEDIUM")}
    /\ Succeeded("analysis/consistency") => aiConfidence(response.evaluated) # "HIGH"

\* a signal analysis of a record of six keys with a fingerprint found, scores
\* close together and a high aggregate: the band is MEDIUM
C28_Witness ==
    /\ Succeeded("analysis/ai-signals")
    /\ response.body.confidence = Str("MEDIUM")
    /\ response.body.ai_signals.v.fingerprint.v.score = Num(80)
    /\ response.body.aggregated_score.v > 70
    /\ lowVariance(numericScores(valuesOf(response.body.ai_signals)))

\* a signal analysis of a record of four keys: the band is LOW
C28_LowWitness ==
    /\ Succeeded("analysis/ai-signals")
    /\ response.body.confidence = Str("LOW")
    /\ keyCount(PanelRecord) = 4

\* a consistency evaluation of a declaration expecting no AI signals, fed from
\* a stored result of band MEDIUM with an aggregate above 0.6
C28_ConsistencyWitness ==
    /\ Succeeded("analysis/consistency")
    /\ aiConfidence(response.evaluated) = "MEDIUM"
    /\ aiScore(response.evaluated) > 60
    /\ intake_declarations = ManualWork
    /\ response.body.consistency_result = "WEAK"



(***************************************************************************)
(* C29: the pipeline's consistency step and the consistency endpoint       *)
(***************************************************************************)
\* the answer of POST /analysis/consistency called next for the case of the
\* last response, with the same evidence_list
ConsistencyNext ==
    analysisConsistency(store, response.body.case_id, evidence_list, "none").response

\* C29: after POST /analysis/pipeline with file_urls has completed for a case,
\* an immediately following POST /analysis/consistency for the same case and
\* the same evidence_list evaluates the same metadata flags, extracted
\* metadata and signal result as the pipeline's consistency step did, and
\* returns the same consistency_result and affected_dimensions.
C29_SameEvaluation ==
    Succeeded("analysis/pipeline") /\ response.body.with_files =>
        /\ ConsistencyNext.status = 200
        /\ ConsistencyNext.evaluated = response.evaluated
        /\ ConsistencyNext.body.consistency_result
               = response.body.consistency_evaluation.consistency_result
        /\ ConsistencyNext.body.affected_dimensions
               = response.body.consistency_evaluation.affected_dimensions
====
